---- MODULE Spec2Model ----
(***************************************************************************)
(* CalorieHawk nutrition services.                                         *)
(*                                                                         *)
(*   src/CalorieHawk/backend/fastapi/app/main.py  ("app")                  *)
(*       fetch_json, macros, get_nutrition                                 *)
(*   src/python-api/main.py                       ("py")                   *)
(*       get_nutrition                                                     *)
(*                                                                         *)
(* One request is one sequential coroutine; it is cut into actions at its  *)
(* awaits (client.get, asyncio.sleep).  The providers are the environment: *)
(* every answer they can give is a nondeterministic choice.                *)
(***************************************************************************)
EXTENDS Integers, Sequences, FiniteSets, TLC

\* ------------------------------------------------------------------------
\* Bounds of the model
\* ------------------------------------------------------------------------

\* longest run of whitespace put before / after a food name
MaxPad == 1
\* longest nutrient list enumerated entry by entry
MaxNutrients == 1

\* candidates in one search result of the detailed flow
MaxCands == 2

\* entries in a measured nutrient list given to the nutrient helpers
MaxMeasured == 2

\* candidates in a list given to the ranking alone
MaxRanked == 3

\* largest max_retries given to fetch_json called alone
MaxBudget == 4

\* ------------------------------------------------------------------------
\* Strings: sequences of one-character strings
\* ------------------------------------------------------------------------

UPPER == <<"A","B","C","D","E","F","G","H","I","J","K","L","M",
           "N","O","P","Q","R","S","T","U","V","W","X","Y","Z">>

LOWER == <<"a","b","c","d","e","f","g","h","i","j","k","l","m",
           "n","o","p","q","r","s","t","u","v","w","x","y","z">>

WHITESPACE == {" ", "\t", "\n"}

LowerChar(c) ==
    IF \E i \in 1..26 : UPPER[i] = c
    THEN LOWER[CHOOSE i \in 1..26 : UPPER[i] = c]
    ELSE c

UpperChar(c) ==
    IF \E i \in 1..26 : LOWER[i] = c
    THEN UPPER[CHOOSE i \in 1..26 : LOWER[i] = c]
    ELSE c

\* str.lower()
lower(s) == [i \in 1..Len(s) |-> LowerChar(s[i])]

\* str.upper(), used to build the inputs only
upper(s) == [i \in 1..Len(s) |-> UpperChar(s[i])]

RECURSIVE lstrip(_)
lstrip(s) ==
    IF s # <<>> /\ Head(s) \in WHITESPACE THEN lstrip(Tail(s)) ELSE s

RECURSIVE rstrip(_)
rstrip(s) ==
    IF s # <<>> /\ s[Len(s)] \in WHITESPACE
    THEN rstrip(SubSeq(s, 1, Len(s) - 1))
    ELSE s

\* str.strip()
strip(s) == rstrip(lstrip(s))

\* mutant: the name is lower-cased but not trimmed
NormaliseName_NoStrip(food_name) == lower(food_name)

\* query = food_name.lower().strip()
NormaliseName(food_name) == strip(lower(food_name))

\* ------------------------------------------------------------------------
\* JSON scalars and Optional[float]
\* ------------------------------------------------------------------------

\* None / a missing key / JSON null
None == [k |-> "null", n |-> 0]

\* a number
Num(x) == [k |-> "num", n |-> x]

\* a string that is not the text of a number
NonNumeric == [k |-> "str", n |-> 0]

Amounts == {0, 5}

JsonValues == {None, NonNumeric} \cup {Num(x) : x \in Amounts}

IsFloatable(v) == v.k \in {"null", "num"}

\* bool(v) of an Optional[float]
Truthy(v) == v.k = "num" /\ v.n # 0

\* ------------------------------------------------------------------------
\* Configuration and the static table
\* ------------------------------------------------------------------------

S_banana == <<"b","a","n","a","n","a">>
S_apple == <<"a","p","p","l","e">>
S_orange == <<"o","r","a","n","g","e">>
S_egg == <<"e","g","g">>
S_rice == <<"r","i","c","e">>
S_bread == <<"b","r","e","a","d">>
S_yogurt == <<"y","o","g","u","r","t">>
S_chicken == <<"c","h","i","c","k","e","n">>
S_beef == <<"b","e","e","f">>
S_milk == <<"m","i","l","k">>
S_pizza == <<"p","i","z","z","a">>
S_kiwi == <<"k","i","w","i">>

FALLBACK_ROWS ==
    { <<S_banana, 105, 1, 0, 27>>,
      <<S_apple, 95, 0, 0, 25>>,
      <<S_orange, 62, 1, 0, 15>>,
      <<S_egg, 78, 6, 5, 1>>,
      <<S_rice, 206, 4, 0, 45>>,
      <<S_bread, 80, 3, 1, 15>>,
      <<S_yogurt, 149, 8, 8, 11>>,
      <<S_chicken, 231, 43, 5, 0>>,
      <<S_beef, 250, 26, 15, 0>>,
      <<S_milk, 122, 8, 5, 12>>,
      <<S_pizza, 285, 12, 10, 36>> }

FALLBACK_KEYS == { r[1] : r \in FALLBACK_ROWS }

\* the dict as the module builds it at import
FALLBACK_MAP_0 ==
    [ key \in FALLBACK_KEYS |->
        LET r == CHOOSE row \in FALLBACK_ROWS : row[1] = key
        IN  [calories |-> r[2], protein |-> r[3], fat |-> r[4], carbs |-> r[5]] ]

\* ------------------------------------------------------------------------
\* NutritionResponse and handler outcomes
\* ------------------------------------------------------------------------

NutritionResponse(calories, protein, fat, carbs, source) ==
    [calories |-> calories, protein |-> protein, fat |-> fat,
     carbs |-> carbs, source |-> source]

\* NutritionResponse(source=...): the numeric fields default to None
NutritionResponseDefault(source) ==
    NutritionResponse(None, None, None, None, source)

\* pydantic's validation of the four Optional[float] fields
ValidatesAsResponse(r) ==
    /\ IsFloatable(r.calories)
    /\ IsFloatable(r.protein)
    /\ IsFloatable(r.fat)
    /\ IsFloatable(r.carbs)

\* the detail of an HTTPException: the message with the values formatted in
Detail(msg, status, q) == [msg |-> msg, status |-> status, query |-> q]

NoDetail == Detail("", 0, <<>>)

Pending == [kind |-> "pending", status |-> 0, detail |-> NoDetail,
            body |-> NutritionResponseDefault("")]

\* the handler returned body (HTTP 200)
Returned(body) == [kind |-> "response", status |-> 200, detail |-> NoDetail,
                   body |-> body]

\* the handler raised HTTPException(status, detail)
Raised(status, detail) == [kind |-> "error", status |-> status,
                           detail |-> detail,
                           body |-> NutritionResponseDefault("")]

\* ------------------------------------------------------------------------
\* Exceptions
\* ------------------------------------------------------------------------

NoErr == [type |-> "none", status_code |-> 0, detail |-> NoDetail]

HTTPException(status_code, detail) ==
    [type |-> "HTTPException", status_code |-> status_code, detail |-> detail]

Exc(type) == [type |-> type, status_code |-> 0, detail |-> NoDetail]

\* the httpx exceptions fetch_json retries on
RETRYABLE_EXC == {"ConnectError", "ReadTimeout", "RemoteProtocolError"}

\* httpx exceptions fetch_json has no handler for
OTHER_EXC == {"ConnectTimeout"}

\* ------------------------------------------------------------------------
\* Inputs
\* ------------------------------------------------------------------------

RECURSIVE Spaces(_)
Spaces(n) == IF n = 0 THEN <<>> ELSE <<" ">> \o Spaces(n - 1)

Pads == { Spaces(n) : n \in 0..MaxPad }

Cores == { <<>>, S_banana, S_kiwi }

\* the path parameter food_name
FoodNames ==
    { l \o c \o r : l \in Pads, c \in Cores, r \in Pads }
    \cup { upper(c) : c \in Cores }
    \cup { <<"\t">> \o upper(c) \o <<"\n">> : c \in Cores }

\* every key of the static map, and two names that are not keys
StaticNames ==
    { l \o c \o r : l \in Pads, r \in Pads,
                    c \in FALLBACK_KEYS \cup {S_kiwi, S_banana \o <<"s">>} }
    \cup { upper(c) : c \in FALLBACK_KEYS }

\* one element of a search hit's foodNutrients
NutrientEntry(number, value) == [nutrientNumber |-> number, value |-> value]

MACRO_CODES == <<"208", "203", "204", "205">>

\* all four codes, in order, each null or a number
FullNutrientLists ==
    { [i \in 1..4 |-> NutrientEntry(MACRO_CODES[i], f[i])] :
        f \in [1..4 -> {None} \cup {Num(x) : x \in Amounts}] }

ShortEntries ==
    { NutrientEntry(c, v) : c \in {"208", "203", "301"}, v \in JsonValues }

RECURSIVE SeqsUpTo(_, _)
SeqsUpTo(S, n) ==
    IF n = 0 THEN { <<>> }
    ELSE LET shorter == SeqsUpTo(S, n - 1)
         IN  shorter \cup { Append(s, e) : s \in shorter, e \in S }

\* the same code twice: only the first entry counts
DuplicateLists ==
    { <<NutrientEntry("208", v), NutrientEntry("208", w)>> :
        v \in JsonValues, w \in JsonValues }

\* energy and protein, each with any value
PairLists ==
    { <<NutrientEntry("208", v), NutrientEntry("203", w)>> :
        v \in JsonValues, w \in JsonValues }

NutrientLists ==
    FullNutrientLists \cup SeqsUpTo(ShortEntries, MaxNutrients)
        \cup DuplicateLists \cup PairLists

\* a parsed JSON body of /foods/search as the simple flow reads it
SearchBody(foods) == [json |-> TRUE, foods |-> foods]

\* a body resp.json() cannot parse
BadJson == [json |-> FALSE, foods |-> <<>>]

SimpleSearchBodies ==
    { SearchBody(<<>>) }
    \cup { SearchBody(<<[foodNutrients |-> ns]>>) : ns \in NutrientLists }

\* the first element of CalorieNinjas' items
CnItems ==
    [calories : JsonValues, protein_g : JsonValues,
     fat_total_g : JsonValues, carbohydrates_total_g : JsonValues]

CnBody(items) == [json |-> TRUE, items |-> items]

CnBadJson == [json |-> FALSE, items |-> <<>>]

CnBodies == { CnBody(<<>>) } \cup { CnBody(<<it>>) : it \in CnItems }

STATUS_OK == 200

STATUS_4XX == {404, 429}

STATUS_5XX == {500, 503}

\* ------------------------------------------------------------------------
\* What FDC can answer to the detailed flow
\* ------------------------------------------------------------------------

\* one element of the search result's foods; fdcId 0, dataType "" and
\* brandOwner "" are missing keys, nutrient_count is len(foodNutrients)
Candidate(fdcId, dataType, brandOwner, score, nutrient_count) ==
    [fdcId |-> fdcId, dataType |-> dataType, brandOwner |-> brandOwner,
     score |-> score, nutrient_count |-> nutrient_count]

CandidatePool ==
    { Candidate(11, "Branded", "Acme", 9, 2),
      Candidate(22, "Foundation", "", 1, 1),
      Candidate(77, "Foundation", "", 1, 1),
      Candidate(0, "SR Legacy", "", 7, 3),
      Candidate(55, "Survey (FNDDS)", "", 5, 0) }

MacroSearchBodies ==
    { SearchBody(fs) : fs \in SeqsUpTo(CandidatePool, MaxCands) }

\* one element of a detail's foodNutrients; id 0 and number "" are missing keys
FoodNutrient(id, number, amount) ==
    [id |-> id, number |-> number, amount |-> amount]

\* labelNutrients: the "value" of each entry; None for a missing entry
Label(calories, protein, fat, carbohydrates) ==
    [calories |-> calories, protein |-> protein, fat |-> fat,
     carbohydrates |-> carbohydrates]

\* labelNutrients missing or empty
NoLabel == Label(None, None, None, None)

\* a parsed JSON body of /food/{fdcId}
DetailBody(description, brandOwner, labelNutrients, foodNutrients, servingSize, servingSizeUnit) ==
    [json |-> TRUE, description |-> description, brandOwner |-> brandOwner,
     labelNutrients |-> labelNutrients, foodNutrients |-> foodNutrients,
     servingSize |-> servingSize, servingSizeUnit |-> servingSizeUnit]

DetailBodies ==
    { \* label and list disagree on kcal
      DetailBody("bar", "Acme", Label(Num(2000000), None, None, None),
                 <<FoodNutrient(1008, "208", Num(2100000))>>, Num(500000), "g"),
      \* macros without energy
      DetailBody("mix", "", NoLabel,
                 <<FoodNutrient(1003, "203", Num(100000)),
                   FoodNutrient(1004, "204", Num(50000)),
                   FoodNutrient(1005, "205", Num(200000))>>, None, ""),
      \* nothing at all
      DetailBody("void", "", NoLabel, <<>>, None, ""),
      \* values that are not numbers
      DetailBody("junk", "Bolt", Label(NonNumeric, None, None, None),
                 <<FoodNutrient(1008, "208", NonNumeric)>>, NonNumeric, "g"),
      \* an amount of 0 under the id, another under the number
      DetailBody("zero id", "", NoLabel,
                 <<FoodNutrient(1008, "", Num(0)),
                   FoodNutrient(0, "208", Num(520000))>>, Num(1000000), "g"),
      \* an amount of 0 and nothing else
      DetailBody("zero", "", NoLabel,
                 <<FoodNutrient(1008, "208", Num(0))>>, Num(0), "g"),
      \* the same nutrient twice
      DetailBody("twice", "", NoLabel,
                 <<FoodNutrient(1008, "208", Num(1000000)),
                   FoodNutrient(1008, "208", Num(1200000))>>, Num(283500), "g") }

\* ------------------------------------------------------------------------
\* State
\* ------------------------------------------------------------------------

VARIABLES
    route,               \* which handler serves the request
    CALORIE_NINJAS_KEY,  \* TRUE iff the environment sets a non-empty key
    FDC_API_KEY,         \* TRUE iff the environment sets a non-empty key
    FALLBACK_MAP,        \* the module's dict of static rows
    PREFERRED_TYPES,     \* the module's list of preferred data types
    waiting,             \* the frame of the request suspended at an await
                         \* while this one runs, if there is one
    food_name,           \* the request's path parameter
    grams,               \* /macros: the grams parameter, in 1/10000 g
    include_survey,      \* /macros: the include_survey parameter
    max_retries,         \* fetch_json's max_retries argument
    arg,                 \* the argument of the helper function applied
                         \* alone; the provider answers fixed for a request
    out,                 \* what the helper function returned; the answer
                         \* the request got before, kept to compare
    query,               \* food_name.lower().strip(); /macros: its query
    pc,                  \* position of the handler
    result,              \* what the handler returned or raised
    calls,               \* the requests the handler made, in order
    cn_out,              \* how the CalorieNinjas step ended
    fdc_out,             \* how the FDC step ended
    fdc_seen,            \* the search body the FDC step read, if any
    foods_sorted,        \* /macros: the candidates, ranked
    cand_i,              \* /macros: position in foods_sorted of the candidate
                         \* whose detail is being requested
    fj_pc,               \* position inside fetch_json
    attempt,             \* fetch_json's loop variable
    last_err,            \* fetch_json's last_err
    fj_ret,              \* what fetch_json returned or raised
    fj_hist,             \* answers to this call's client.get, in order
    fj_gets,             \* number of client.get this call has issued
    resp_status,         \* status code of the last response it received
    resp_body,           \* body of the last 200 response it received
    sleeps               \* this call's asyncio.sleep durations (1/100 s)

vars == <<route, CALORIE_NINJAS_KEY, FDC_API_KEY, FALLBACK_MAP,
          PREFERRED_TYPES, waiting, food_name, grams,
          include_survey, max_retries, arg, out, query, pc, result, calls, cn_out, fdc_out, fdc_seen,
          foods_sorted, cand_i, fj_pc, attempt, last_err, fj_ret, fj_hist,
          fj_gets, resp_status, resp_body, sleeps>>

\* what the handlers share and only read: the keys, the dict and the list
shared == <<CALORIE_NINJAS_KEY, FDC_API_KEY, FALLBACK_MAP, PREFERRED_TYPES>>

config == <<route, shared, waiting, food_name, grams, include_survey,
            max_retries, arg>>

probe == <<foods_sorted, cand_i>>

fj_vars == <<fj_pc, attempt, last_err, fj_ret, fj_hist, fj_gets, resp_status,
            resp_body, sleeps>>

Request(provider, path) == [provider |-> provider, path |-> path]

CnReq == Request("calorieninjas", "v1/nutrition")

FdcSearchReq == Request("fdc", "foods/search")

\* ------------------------------------------------------------------------
\* fetch_json
\* ------------------------------------------------------------------------

DEFAULT_MAX_RETRIES == 4

\* backoff_base = 0.35 s, in 1/100 s
BACKOFF_BASE == 35

RECURSIVE Pow2(_)
Pow2(n) == IF n = 0 THEN 1 ELSE 2 * Pow2(n - 1)

\* what fetch_json's caller sees
FjReturn(body) == [ok |-> TRUE, body |-> body, exc |-> NoErr]

FjRaise(e) == [ok |-> FALSE, body |-> BadJson, exc |-> e]

FjNothing == [ok |-> FALSE, body |-> BadJson, exc |-> NoErr]

\* the call: the loop starts and the first client.get is issued
fetch_json_enter(req, log) ==
    /\ fj_pc' = "get"
    /\ attempt' = 0
    /\ last_err' = NoErr
    /\ fj_ret' = FjNothing
    /\ fj_hist' = <<>>
    /\ fj_gets' = 1
    /\ resp_status' = 0
    /\ resp_body' = BadJson
    /\ sleeps' = <<>>
    /\ calls' = Append(log, req)

\* mutant: the wait grows by the base, it does not double
fetch_json_backoff_Linear(e, cls, st) ==
    /\ last_err' = e
    /\ resp_status' = st
    /\ fj_hist' = Append(fj_hist, cls)
    /\ sleeps' = Append(sleeps, BACKOFF_BASE * (attempt + 1))
    /\ fj_pc' = "sleep"
    /\ UNCHANGED <<attempt, fj_ret, fj_gets, resp_body>>

\* await asyncio.sleep(backoff_base * (2 ** attempt))
fetch_json_backoff(e, cls, st) ==
    /\ last_err' = e
    /\ resp_status' = st
    /\ fj_hist' = Append(fj_hist, cls)
    /\ sleeps' = Append(sleeps, BACKOFF_BASE * Pow2(attempt))
    /\ fj_pc' = "sleep"
    /\ UNCHANGED <<attempt, fj_ret, fj_gets, resp_body>>

fetch_json_leave(ret, cls, st, body) ==
    /\ fj_ret' = ret
    /\ resp_status' = st
    /\ resp_body' = body
    /\ fj_hist' = Append(fj_hist, cls)
    /\ fj_pc' = "left"
    /\ UNCHANGED <<attempt, last_err, fj_gets, sleeps>>

\* client.get raised ConnectError, ReadTimeout or RemoteProtocolError
fetch_json_transient ==
    /\ fj_pc = "get"
    /\ \E t \in RETRYABLE_EXC : fetch_json_backoff(Exc(t), "net", resp_status)
    /\ UNCHANGED <<config, out, probe, query, pc, result, calls, cn_out, fdc_out,
                   fdc_seen>>

\* client.get raised something the loop has no handler for
fetch_json_unhandled ==
    /\ fj_pc = "get"
    /\ \E t \in OTHER_EXC : fetch_json_leave(FjRaise(Exc(t)), "exc", resp_status, resp_body)
    /\ UNCHANGED <<config, out, probe, query, pc, result, calls, cn_out, fdc_out,
                   fdc_seen>>

\* 500 <= resp.status_code < 600
fetch_json_5xx ==
    /\ fj_pc = "get"
    /\ \E st \in STATUS_5XX :
          fetch_json_backoff(HTTPException(502, Detail("USDA 5xx", st, <<>>)),
                             "5xx", st)
    /\ UNCHANGED <<config, out, probe, query, pc, result, calls, cn_out, fdc_out,
                   fdc_seen>>

\* mutant: a 4xx answer is retried like a 5xx answer
fetch_json_4xx_Retried ==
    /\ fj_pc = "get"
    /\ \E st \in STATUS_4XX :
          fetch_json_backoff(HTTPException(st, Detail("USDA API error", st, <<>>)),
                             "4xx", st)
    /\ UNCHANGED <<config, out, probe, query, pc, result, calls, cn_out, fdc_out,
                   fdc_seen>>

\* raise_for_status() raised HTTPStatusError
fetch_json_4xx ==
    /\ fj_pc = "get"
    /\ \E st \in STATUS_4XX :
          fetch_json_leave(
              FjRaise(HTTPException(st, Detail("USDA API error", st, <<>>))),
              "4xx", st, resp_body)
    /\ UNCHANGED <<config, out, probe, query, pc, result, calls, cn_out, fdc_out,
                   fdc_seen>>

\* no helper function is applied alone, no answer is fixed
NoArg == <<>>

\* the bodies the provider can send to the request in flight
BodiesFor(p) ==
    IF p = "fdc_fetch" THEN SimpleSearchBodies \cup {BadJson}
    ELSE IF p = "search" THEN MacroSearchBodies \cup {BadJson}
    ELSE IF p \in {"probe", "first"} THEN DetailBodies \cup {BadJson}
    ELSE IF p = "call" THEN {SearchBody(<<>>), BadJson}
    ELSE {BadJson}

\* return resp.json()
fetch_json_200 ==
    /\ fj_pc = "get"
    /\ \E body \in BodiesFor(pc) :
          IF body.json
          THEN fetch_json_leave(FjReturn(body), "200", STATUS_OK, body)
          ELSE fetch_json_leave(FjRaise(Exc("JSONDecodeError")), "badjson",
                                STATUS_OK, body)
    /\ UNCHANGED <<config, out, probe, query, pc, result, calls, cn_out, fdc_out,
                   fdc_seen>>

\* what follows the loop
fetch_json_exhausted ==
    IF last_err.type \in RETRYABLE_EXC
    THEN HTTPException(503,
             Detail("Network/DNS error contacting USDA after retries", 0, <<>>))
    ELSE IF last_err.type = "HTTPException"
         THEN last_err
         ELSE HTTPException(503, Detail("Upstream unavailable", 0, <<>>))

\* mutant: the loop runs once more than the budget
fetch_json_wake_OneMore ==
    /\ fj_pc = "sleep"
    /\ IF attempt + 1 <= max_retries
       THEN /\ attempt' = attempt + 1
            /\ fj_pc' = "get"
            /\ fj_gets' = fj_gets + 1
            /\ UNCHANGED <<last_err, fj_ret, fj_hist, resp_status, resp_body>>
       ELSE /\ fj_pc' = "left"
            /\ fj_ret' = FjRaise(fetch_json_exhausted)
            /\ UNCHANGED <<attempt, last_err, fj_hist, fj_gets, resp_status,
                           resp_body>>
    /\ UNCHANGED <<config, out, probe, query, pc, result, calls, cn_out, fdc_out, fdc_seen,
                   sleeps>>

\* the sleep is over: the next iteration, or the end of the loop
fetch_json_wake ==
    /\ fj_pc = "sleep"
    /\ IF attempt + 1 < max_retries
       THEN /\ attempt' = attempt + 1
            /\ fj_pc' = "get"
            /\ fj_gets' = fj_gets + 1
            /\ UNCHANGED <<last_err, fj_ret, fj_hist, resp_status, resp_body>>
       ELSE /\ fj_pc' = "left"
            /\ fj_ret' = FjRaise(fetch_json_exhausted)
            /\ UNCHANGED <<attempt, last_err, fj_hist, fj_gets, resp_status,
                           resp_body>>
    /\ UNCHANGED <<config, out, probe, query, pc, result, calls, cn_out, fdc_out, fdc_seen,
                   sleeps>>

fetch_json ==
    \/ fetch_json_transient
    \/ fetch_json_unhandled
    \/ fetch_json_5xx
    \/ fetch_json_4xx
    \/ fetch_json_200
    \/ fetch_json_wake

\* ------------------------------------------------------------------------
\* get_nutrition: the parts both copies share
\* ------------------------------------------------------------------------

\* mutant: the "none" response carries zeros instead of absent fields
StaticLookup_ZeroNone(q) ==
    IF q \in DOMAIN FALLBACK_MAP
    THEN LET fb == FALLBACK_MAP[q]
         IN  NutritionResponse(Num(fb.calories), Num(fb.protein),
                               Num(fb.fat), Num(fb.carbs), "fallback")
    ELSE NutritionResponse(Num(0), Num(0), Num(0), Num(0), "none")

\* mutant: fat and carbs of the row are swapped
StaticLookup_SwappedFatCarbs(q) ==
    IF q \in DOMAIN FALLBACK_MAP
    THEN LET fb == FALLBACK_MAP[q]
         IN  NutritionResponse(Num(fb.calories), Num(fb.protein),
                               Num(fb.carbs), Num(fb.fat), "fallback")
    ELSE NutritionResponseDefault("none")

\* steps 3 and 4: the static map, then "none"
StaticLookup(q) ==
    IF q \in DOMAIN FALLBACK_MAP
    THEN LET fb == FALLBACK_MAP[q]
         IN  NutritionResponse(Num(fb.calories), Num(fb.protein),
                               Num(fb.fat), Num(fb.carbs), "fallback")
    ELSE NutritionResponseDefault("none")

\* the NutritionResponse built from items[0]
CnRecord(item) ==
    NutritionResponse(item.calories, item.protein_g, item.fat_total_g,
                      item.carbohydrates_total_g, "calorieninjas")

\* what client.get can do for the CalorieNinjas request
CnAnswers ==
    { [exc |-> t, status |-> 0, body |-> CnBadJson] :
        t \in {"ConnectError", "ReadTimeout"} }
    \cup { [exc |-> "", status |-> st, body |-> CnBadJson] :
             st \in STATUS_4XX \cup STATUS_5XX }
    \cup { [exc |-> "", status |-> STATUS_OK, body |-> b] :
             b \in CnBodies \cup {CnBadJson} }

\* the answers the request in flight can get: any, or the one answer fixed
\* for it when requests are run on the same provider responses
CnOffered == IF arg = NoArg THEN CnAnswers ELSE {arg.cn}

\* how the CalorieNinjas step ends on answer a:
\* "ok" (it returns), or why control leaves the try block
CnStep(a) ==
    IF a.exc # "" THEN "error"
    ELSE IF a.status # STATUS_OK THEN "status"
    ELSE IF ~a.body.json THEN "error"
    ELSE IF a.body.items = <<>> THEN "empty"
    ELSE IF ~ValidatesAsResponse(CnRecord(a.body.items[1])) THEN "error"
    ELSE "ok"

\* ------------------------------------------------------------------------
\* get_nutrition of the app
\* ------------------------------------------------------------------------

RECURSIVE find_nutrient(_, _)
find_nutrient(nutrients, code) ==
    IF nutrients = <<>> THEN None
    ELSE LET n == Head(nutrients)
         IN  IF n.nutrientNumber = code
             THEN IF IsFloatable(n.value) THEN n.value ELSE None
             ELSE find_nutrient(Tail(nutrients), code)

\* the record the FDC step extracts from the first hit
FdcRecord(food) ==
    NutritionResponse(find_nutrient(food.foodNutrients, "208"),
                      find_nutrient(food.foodNutrients, "203"),
                      find_nutrient(food.foodNutrients, "204"),
                      find_nutrient(food.foodNutrients, "205"), "fdc")

\* any([calories, protein, fat, carbs])
AnyMacro(r) ==
    Truthy(r.calories) \/ Truthy(r.protein) \/ Truthy(r.fat) \/ Truthy(r.carbs)

\* how the FDC step ends on what fetch_json gave
FdcStep(ret) ==
    IF ~ret.ok THEN "error"
    ELSE IF ret.body.foods = <<>> THEN "empty"
    ELSE IF ~AnyMacro(FdcRecord(ret.body.foods[1])) THEN "unusable"
    ELSE "ok"

\* steps 3 and 4 end the request
get_nutrition_static(q) ==
    /\ pc' = "done"
    /\ result' = Returned(StaticLookup(q))

\* step 2 onwards, after the CalorieNinjas step gave nothing
get_nutrition_try_fdc(q) ==
    IF FDC_API_KEY
    THEN /\ fetch_json_enter(FdcSearchReq, calls)
         /\ pc' = "fdc_fetch"
         /\ UNCHANGED <<result, fdc_out>>
    ELSE /\ get_nutrition_static(q)
         /\ fdc_out' = "skipped"
         /\ UNCHANGED <<fj_vars, calls>>

\* from the entry to the first await or return
get_nutrition_begin ==
    /\ route = "app"
    /\ pc = "start"
    /\ query' = NormaliseName(food_name)
    /\ IF query' = <<>>
       THEN /\ pc' = "done"
            /\ result' = Raised(400, Detail("Food name cannot be empty", 0, <<>>))
            /\ UNCHANGED <<calls, cn_out, fdc_out, fj_vars>>
       ELSE IF CALORIE_NINJAS_KEY
            THEN /\ pc' = "cn_get"
                 /\ calls' = Append(calls, CnReq)
                 /\ UNCHANGED <<result, cn_out, fdc_out, fj_vars>>
            ELSE /\ cn_out' = "skipped"
                 /\ get_nutrition_try_fdc(query')
    /\ UNCHANGED <<config, out, probe, fdc_seen>>

\* CalorieNinjas answered: return its record, or go on to step 2
get_nutrition_cn ==
    /\ route = "app"
    /\ pc = "cn_get"
    /\ \E a \in CnOffered :
          /\ cn_out' = CnStep(a)
          /\ IF CnStep(a) = "ok"
             THEN /\ pc' = "done"
                  /\ result' = Returned(CnRecord(a.body.items[1]))
                  /\ UNCHANGED <<calls, fdc_out, fj_vars>>
             ELSE get_nutrition_try_fdc(query)
    /\ UNCHANGED <<config, out, probe, query, fdc_seen>>

\* mutant: the except clause of step 2 lets an HTTPException through
get_nutrition_fdc_Propagates ==
    /\ route = "app"
    /\ pc = "fdc_fetch"
    /\ fj_pc = "left"
    /\ fdc_out' = FdcStep(fj_ret)
    /\ fdc_seen' = IF fj_ret.ok THEN fj_ret.body ELSE fdc_seen
    /\ IF FdcStep(fj_ret) = "ok"
       THEN /\ pc' = "done"
            /\ result' = Returned(FdcRecord(fj_ret.body.foods[1]))
       ELSE IF ~fj_ret.ok /\ fj_ret.exc.type = "HTTPException"
            THEN /\ pc' = "done"
                 /\ result' = Raised(fj_ret.exc.status_code, fj_ret.exc.detail)
            ELSE get_nutrition_static(query)
    /\ fj_pc' = "idle"
    /\ UNCHANGED <<config, out, probe, query, calls, cn_out, attempt, last_err,
                   fj_ret, fj_hist, fj_gets, resp_status, resp_body, sleeps>>

\* fetch_json is back: return the FDC record, or go on to step 3
get_nutrition_fdc ==
    /\ route = "app"
    /\ pc = "fdc_fetch"
    /\ fj_pc = "left"
    /\ fdc_out' = FdcStep(fj_ret)
    /\ fdc_seen' = IF fj_ret.ok THEN fj_ret.body ELSE fdc_seen
    /\ IF FdcStep(fj_ret) = "ok"
       THEN /\ pc' = "done"
            /\ result' = Returned(FdcRecord(fj_ret.body.foods[1]))
       ELSE get_nutrition_static(query)
    /\ fj_pc' = "idle"
    /\ UNCHANGED <<config, out, probe, query, calls, cn_out, attempt, last_err,
                   fj_ret, fj_hist, fj_gets, resp_status, resp_body, sleeps>>

get_nutrition ==
    \/ get_nutrition_begin
    \/ get_nutrition_cn
    \/ get_nutrition_fdc

\* ------------------------------------------------------------------------
\* get_nutrition of python-api
\* ------------------------------------------------------------------------

\* float(val) raised ValueError
ValueError == [k |-> "raise", n |-> 0]

RECURSIVE py_find_nutrient(_, _)
py_find_nutrient(nutrients, code) ==
    IF nutrients = <<>> THEN None
    ELSE LET n == Head(nutrients)
         IN  IF n.nutrientNumber = code
             THEN IF IsFloatable(n.value) THEN n.value ELSE ValueError
             ELSE py_find_nutrient(Tail(nutrients), code)

PyFdcRecord(food) ==
    NutritionResponse(py_find_nutrient(food.foodNutrients, "208"),
                      py_find_nutrient(food.foodNutrients, "203"),
                      py_find_nutrient(food.foodNutrients, "204"),
                      py_find_nutrient(food.foodNutrients, "205"), "fdc")

\* what client.get can do for python-api's search request
PyFdcAnswers ==
    { [exc |-> t, status |-> 0, body |-> BadJson] :
        t \in {"ConnectError", "ReadTimeout"} }
    \cup { [exc |-> "", status |-> st, body |-> BadJson] :
             st \in STATUS_4XX \cup STATUS_5XX }
    \cup { [exc |-> "", status |-> STATUS_OK, body |-> b] :
             b \in SimpleSearchBodies \cup {BadJson} }

\* the answers the search request in flight can get: any, or the first of
\* the answers fixed for it
PyFdcOffered == IF arg = NoArg THEN PyFdcAnswers ELSE {arg.fdc[1]}

\* how python-api's FDC step ends on answer a
PyFdcStep(a) ==
    IF a.exc # "" THEN "error"
    ELSE IF a.status # STATUS_OK THEN "status"
    ELSE IF ~a.body.json THEN "error"
    ELSE IF a.body.foods = <<>> THEN "empty"
    ELSE IF ~ValidatesAsResponse(PyFdcRecord(a.body.foods[1])) THEN "error"
    ELSE IF ~AnyMacro(PyFdcRecord(a.body.foods[1])) THEN "unusable"
    ELSE "ok"

py_get_nutrition_try_fdc(q) ==
    IF FDC_API_KEY
    THEN /\ calls' = Append(calls, FdcSearchReq)
         /\ pc' = "fdc_get"
         /\ UNCHANGED <<result, fdc_out>>
    ELSE /\ get_nutrition_static(q)
         /\ fdc_out' = "skipped"
         /\ UNCHANGED calls

py_get_nutrition_begin ==
    /\ route = "py"
    /\ pc = "start"
    /\ query' = NormaliseName(food_name)
    /\ IF query' = <<>>
       THEN /\ pc' = "done"
            /\ result' = Raised(400, Detail("Food name cannot be empty", 0, <<>>))
            /\ UNCHANGED <<calls, cn_out, fdc_out>>
       ELSE IF CALORIE_NINJAS_KEY
            THEN /\ pc' = "cn_get"
                 /\ calls' = Append(calls, CnReq)
                 /\ UNCHANGED <<result, cn_out, fdc_out>>
            ELSE /\ cn_out' = "skipped"
                 /\ py_get_nutrition_try_fdc(query')
    /\ UNCHANGED <<config, out, probe, fdc_seen, fj_vars>>

py_get_nutrition_cn ==
    /\ route = "py"
    /\ pc = "cn_get"
    /\ \E a \in CnOffered :
          /\ cn_out' = CnStep(a)
          /\ IF CnStep(a) = "ok"
             THEN /\ pc' = "done"
                  /\ result' = Returned(CnRecord(a.body.items[1]))
                  /\ UNCHANGED <<calls, fdc_out>>
             ELSE py_get_nutrition_try_fdc(query)
    /\ UNCHANGED <<config, out, probe, query, fdc_seen, fj_vars>>

py_get_nutrition_fdc ==
    /\ route = "py"
    /\ pc = "fdc_get"
    /\ \E a \in PyFdcOffered :
          /\ fdc_out' = PyFdcStep(a)
          /\ fdc_seen' = IF a.exc = "" /\ a.status = STATUS_OK /\ a.body.json
                         THEN a.body ELSE fdc_seen
          /\ IF PyFdcStep(a) = "ok"
             THEN /\ pc' = "done"
                  /\ result' = Returned(PyFdcRecord(a.body.foods[1]))
             ELSE get_nutrition_static(query)
    /\ UNCHANGED <<config, out, probe, query, calls, cn_out, fj_vars>>

py_get_nutrition ==
    \/ py_get_nutrition_begin
    \/ py_get_nutrition_cn
    \/ py_get_nutrition_fdc

\* ------------------------------------------------------------------------
\* Nutrient helpers of the app.  Numbers of the detailed flow are in 1/10000
\* (Num(2000000) is 200.0), one decimal more than round(x, 3) keeps, so that
\* the rounding is not the identity.  The floats of the code are modelled as
\* exact fractions, and a tie is rounded to the even neighbour.
\* ------------------------------------------------------------------------

Nutrients(kcal, protein_g, fat_g, carbs_g) ==
    [kcal |-> kcal, protein_g |-> protein_g, fat_g |-> fat_g,
     carbs_g |-> carbs_g]

NoNutrients == Nutrients(None, None, None, None)

\* pick(key): the "value" of the label entry as a float, else None
pick(v) == IF v.k = "num" THEN v ELSE None

_extract_from_label_nutrients(detail) ==
    LET ln == detail.labelNutrients
    IN  Nutrients(pick(ln.calories), pick(ln.protein), pick(ln.fat),
                  pick(ln.carbohydrates))

\* nums_by_id.get(id): the amount of the last entry with that id whose amount
\* is a number
RECURSIVE nums_by_id(_, _)
nums_by_id(foodNutrients, id) ==
    IF foodNutrients = <<>> THEN None
    ELSE LET n == foodNutrients[Len(foodNutrients)]
             rest == SubSeq(foodNutrients, 1, Len(foodNutrients) - 1)
         IN  IF n.amount.k = "num" /\ n.id # 0 /\ n.id = id
             THEN n.amount
             ELSE nums_by_id(rest, id)

RECURSIVE nums_by_number(_, _)
nums_by_number(foodNutrients, number) ==
    IF foodNutrients = <<>> THEN None
    ELSE LET n == foodNutrients[Len(foodNutrients)]
             rest == SubSeq(foodNutrients, 1, Len(foodNutrients) - 1)
         IN  IF n.amount.k = "num" /\ n.number # "" /\ n.number = number
             THEN n.amount
             ELSE nums_by_number(rest, number)

\* a or b
PyOr(a, b) == IF Truthy(a) THEN a ELSE b

_extract_from_food_nutrients(detail) ==
    LET fn == detail.foodNutrients
    IN  Nutrients(PyOr(nums_by_id(fn, 1008), nums_by_number(fn, "208")),
                  PyOr(nums_by_id(fn, 1003), nums_by_number(fn, "203")),
                  PyOr(nums_by_id(fn, 1004), nums_by_number(fn, "204")),
                  PyOr(nums_by_id(fn, 1005), nums_by_number(fn, "205")))

RECURSIVE Gcd(_, _)
Gcd(a, b) == IF b = 0 THEN a ELSE Gcd(b, a % b)

\* round(num / den) to the nearest integer, ties to the even one
RoundHalfEven(num, den) ==
    LET q == num \div den
        r == num % den
    IN  IF 2 * r < den THEN q
        ELSE IF 2 * r > den THEN q + 1
        ELSE IF q % 2 = 0 THEN q ELSE q + 1

Abs(x) == IF x < 0 THEN -x ELSE x

\* round(num / den, 3), num / den and the result in 1/10000
Round3(num, den) == 10 * RoundHalfEven(num, 10 * den)

\* mutant: the measured value is preferred to the label value
LabelFirst_MeasuredFirst(a, b) == IF b # None THEN b ELSE a

\* a[k] if a[k] is not None else b[k]
LabelFirst(a, b) == IF a # None THEN a ELSE b

\* 0.0 for an absent macro
Safe(v) == IF v # None THEN v.n ELSE 0

_merge_nutrient_sources(detail) ==
    LET a == _extract_from_label_nutrients(detail)
        b == _extract_from_food_nutrients(detail)
        kcal == LabelFirst(a.kcal, b.kcal)
        p == LabelFirst(a.protein_g, b.protein_g)
        f == LabelFirst(a.fat_g, b.fat_g)
        c == LabelFirst(a.carbs_g, b.carbs_g)
    IN  IF kcal = None /\ (p # None \/ f # None \/ c # None)
        THEN Nutrients(Num(Round3(4 * Safe(p) + 4 * Safe(c) + 9 * Safe(f), 1)),
                       p, f, c)
        ELSE Nutrients(kcal, p, f, c)

\* any(n.get(k) is not None for k in (...))
AnyNutrient(n) ==
    n.kcal # None \/ n.protein_g # None \/ n.fat_g # None \/ n.carbs_g # None

\* (size, unit): size as a float or None
_serving_info(detail) ==
    <<IF detail.servingSize.k = "num" THEN detail.servingSize ELSE None,
      detail.servingSizeUnit>>

\* serving_size or None
SizeOrNone(size) == IF Truthy(size) THEN size ELSE None

\* mutant: the survey category counts as a generic one
_guess_grams_basis_SurveyGeneric(detail, data_type) ==
    LET serving_size == _serving_info(detail)[1]
    IN  IF data_type = "Branded" THEN SizeOrNone(serving_size)
        ELSE IF data_type \in {"Foundation", "SR Legacy", "Survey (FNDDS)"}
             THEN Num(1000000)
        ELSE SizeOrNone(serving_size)

_guess_grams_basis(detail, data_type) ==
    LET serving_size == _serving_info(detail)[1]
    IN  IF data_type = "Branded" THEN SizeOrNone(serving_size)
        ELSE IF data_type \in {"Foundation", "SR Legacy"} THEN Num(1000000)
        ELSE SizeOrNone(serving_size)

\* mutant: the product is cut to 3 decimals, not rounded
RoundScaled_Floor(v, a, b) ==
    LET g == Gcd(a, b)
        d == 10 * (b \div g)
        h == Gcd(Abs(v.n), d)
    IN  Num(10 * (((v.n \div h) * (a \div g)) \div (d \div h)))

\* round(v * (a / b), 3); the fraction is reduced first to keep the products
\* small
RoundScaled(v, a, b) ==
    LET g == Gcd(a, b)
        d == 10 * (b \div g)
        h == Gcd(Abs(v.n), d)
    IN  Num(10 * RoundHalfEven((v.n \div h) * (a \div g), d \div h))

\* not grams_basis or grams_basis <= 0
NoBasis(grams_basis) == ~Truthy(grams_basis) \/ grams_basis.n <= 0

ScaleAll(n, a, grams_basis) ==
    IF NoBasis(grams_basis) THEN NoNutrients
    ELSE [k \in DOMAIN n |->
            IF n[k] # None THEN RoundScaled(n[k], a, grams_basis.n) ELSE None]

\* mutant: per gram, not per 100 g
_per_100g_PerGram(n, grams_basis) == ScaleAll(n, 10000, grams_basis)

_per_100g(n, grams_basis) == ScaleAll(n, 1000000, grams_basis)

_scaled(n, g, grams_basis) == ScaleAll(n, g, grams_basis)

\* ------------------------------------------------------------------------
\* macros
\* ------------------------------------------------------------------------

\* the list as the module builds it at import
PREFERRED_TYPES_0 == <<"Foundation", "SR Legacy", "Branded">>

\* PREFERRED_TYPES.index(dt), from 0
IndexOf(dt) == (CHOOSE i \in 1..Len(PREFERRED_TYPES) : PREFERRED_TYPES[i] = dt) - 1

\* data_types of the search request
data_types ==
    IF include_survey THEN Append(PREFERRED_TYPES, "Survey (FNDDS)")
    ELSE PREFERRED_TYPES

MacrosSearchReq ==
    [provider |-> "fdc", path |-> "foods/search", query |-> query,
     dataType |-> data_types]

\* GET {FDC_BASE}/food/{fdc_id}; fdc_id 0 is the path /food/None
DetailReq(fdc_id) == [provider |-> "fdc", path |-> "food", fdcId |-> fdc_id]

\* mutant: a lower score ranks first
rank_key_ScoreAscending(it) ==
    LET dt == it.dataType
        type_rank ==
            IF \E i \in 1..Len(PREFERRED_TYPES) : PREFERRED_TYPES[i] = dt
            THEN IndexOf(dt)
            ELSE Len(PREFERRED_TYPES)
                    + (IF dt = "Survey (FNDDS)" THEN 0 ELSE 1)
    IN  <<type_rank, -it.nutrient_count, it.score>>

rank_key(it) ==
    LET dt == it.dataType
        type_rank ==
            IF \E i \in 1..Len(PREFERRED_TYPES) : PREFERRED_TYPES[i] = dt
            THEN IndexOf(dt)
            ELSE Len(PREFERRED_TYPES)
                    + (IF dt = "Survey (FNDDS)" THEN 0 ELSE 1)
    IN  <<type_rank, -it.nutrient_count, -it.score>>

\* tuple comparison k1 < k2
KeyLess(k1, k2) ==
    \/ k1[1] < k2[1]
    \/ k1[1] = k2[1] /\ k1[2] < k2[2]
    \/ k1[1] = k2[1] /\ k1[2] = k2[2] /\ k1[3] < k2[3]

\* it goes behind every element whose key is not greater than its own
RECURSIVE InsertRanked(_, _)
InsertRanked(ranked, it) ==
    IF ranked = <<>> THEN <<it>>
    ELSE IF KeyLess(rank_key(it), rank_key(Head(ranked)))
         THEN <<it>> \o ranked
         ELSE <<Head(ranked)>> \o InsertRanked(Tail(ranked), it)

\* sorted(foods, key=rank_key): stable
RECURSIVE sorted(_)
sorted(foods) ==
    IF foods = <<>> THEN <<>>
    ELSE InsertRanked(sorted(SubSeq(foods, 1, Len(foods) - 1)),
                      foods[Len(foods)])

\* mutant: the loop jumps to the last candidate that has an fdcId
NextCand_Last(fs, i) ==
    LET later == { j \in (i + 1)..Len(fs) : fs[j].fdcId # 0 }
    IN  IF later = {} THEN 0
        ELSE CHOOSE j \in later : \A k \in later : k <= j

\* the next candidate of the for loop behind position i that has an fdcId,
\* 0 when the loop is over
NextCand(fs, i) ==
    LET later == { j \in (i + 1)..Len(fs) : fs[j].fdcId # 0 }
    IN  IF later = {} THEN 0
        ELSE CHOOSE j \in later : \A k \in later : j <= k

\* the JSON body macros returns
MacrosResponse(chosen, detail) ==
    LET data_type == chosen.dataType
        brand_owner == IF chosen.brandOwner # "" THEN chosen.brandOwner
                       ELSE detail.brandOwner
        nutrients == _merge_nutrient_sources(detail)
        serving == _serving_info(detail)
        grams_basis == _guess_grams_basis(detail, data_type)
    IN  [query |-> query,
         fdcId |-> chosen.fdcId,
         description |-> detail.description,
         dataType |-> data_type,
         brandOwner |-> brand_owner,
         per_100g |-> _per_100g(nutrients, grams_basis),
         scaled_per_grams |-> _scaled(nutrients, grams, grams_basis),
         servingSize |-> serving[1],
         servingSizeUnit |-> serving[2],
         debug |-> [chosen_dataType |-> data_type,
                    grams_basis |-> grams_basis,
                    used_labelNutrients |-> detail.labelNutrients # NoLabel,
                    candidate_count |-> Len(foods_sorted),
                    retries_hardened |-> TRUE]]

\* fetch_json raised inside macros: an HTTPException is the response, anything
\* else is the framework's 500
macros_raise(ret) ==
    IF ret.exc.type = "HTTPException"
    THEN Raised(ret.exc.status_code, ret.exc.detail)
    ELSE Raised(500, Detail("Internal Server Error", 0, <<>>))

\* mutant: the 404 names the lower-cased query
NoFoods_Lowered(q) == Raised(404, Detail("No FDC foods for", 0, lower(q)))

\* HTTPException(404, f"No FDC foods for '{query}'")
NoFoods(q) == Raised(404, Detail("No FDC foods for", 0, q))

\* the request is over
macros_end(res) ==
    /\ pc' = "done"
    /\ result' = res
    /\ fj_pc' = "idle"
    /\ UNCHANGED <<calls, attempt, last_err, fj_ret, fj_hist, fj_gets,
                   resp_status, resp_body, sleeps>>

\* await fetch_json(client, f"{FDC_BASE}/food/{fdc_id}", ...) for fs[j]
macros_request_detail(fs, j, next_pc) ==
    /\ fetch_json_enter(DetailReq(fs[j].fdcId), calls)
    /\ cand_i' = j
    /\ pc' = next_pc
    /\ UNCHANGED result

\* the for loop goes on behind position i; when it is over without a detail,
\* the first candidate is fetched
macros_probe_from(fs, i) ==
    IF NextCand(fs, i) # 0
    THEN macros_request_detail(fs, NextCand(fs, i), "probe")
    ELSE macros_request_detail(fs, 1, "first")

\* mutant: the search is requested whether or not the key is set
macros_begin_NoKeyCheck ==
    /\ route = "macros"
    /\ pc = "start"
    /\ fetch_json_enter(MacrosSearchReq, calls)
    /\ pc' = "search"
    /\ UNCHANGED result
    /\ UNCHANGED <<config, out, probe, query, cn_out, fdc_out, fdc_seen>>

\* from the entry to the search request
macros_begin ==
    /\ route = "macros"
    /\ pc = "start"
    /\ IF ~FDC_API_KEY
       THEN /\ pc' = "done"
            /\ result' = Raised(500, Detail("FDC_API_KEY not set", 0, <<>>))
            /\ UNCHANGED <<calls, fj_vars>>
       ELSE /\ fetch_json_enter(MacrosSearchReq, calls)
            /\ pc' = "search"
            /\ UNCHANGED result
    /\ UNCHANGED <<config, out, probe, query, cn_out, fdc_out, fdc_seen>>

\* the search answered: 404, or rank the candidates and request a detail
macros_search ==
    /\ route = "macros"
    /\ pc = "search"
    /\ fj_pc = "left"
    /\ IF ~fj_ret.ok
       THEN macros_end(macros_raise(fj_ret)) /\ UNCHANGED probe
       ELSE IF fj_ret.body.foods = <<>>
            THEN macros_end(NoFoods(query)) /\ UNCHANGED probe
            ELSE /\ foods_sorted' = sorted(fj_ret.body.foods)
                 /\ macros_probe_from(foods_sorted', 0)
    /\ UNCHANGED <<config, out, query, cn_out, fdc_out, fdc_seen>>

\* a probed detail answered: choose it, or go on
macros_probe ==
    /\ route = "macros"
    /\ pc = "probe"
    /\ fj_pc = "left"
    /\ IF ~fj_ret.ok
       THEN macros_end(macros_raise(fj_ret)) /\ UNCHANGED probe
       ELSE IF AnyNutrient(_merge_nutrient_sources(fj_ret.body))
            THEN /\ macros_end(Returned(MacrosResponse(foods_sorted[cand_i],
                                                       fj_ret.body)))
                 /\ UNCHANGED probe
            ELSE /\ macros_probe_from(foods_sorted, cand_i)
                 /\ UNCHANGED foods_sorted
    /\ UNCHANGED <<config, out, query, cn_out, fdc_out, fdc_seen>>

\* the detail of the first candidate answered, requested because no probe
\* gave a detail
macros_first ==
    /\ route = "macros"
    /\ pc = "first"
    /\ fj_pc = "left"
    /\ IF ~fj_ret.ok
       THEN macros_end(macros_raise(fj_ret))
       ELSE macros_end(Returned(MacrosResponse(foods_sorted[1], fj_ret.body)))
    /\ UNCHANGED <<config, out, probe, query, cn_out, fdc_out, fdc_seen>>

macros ==
    \/ macros_begin
    \/ macros_search
    \/ macros_probe
    \/ macros_first

\* ------------------------------------------------------------------------
\* The system
\* ------------------------------------------------------------------------

\* no other request is in progress
NoFrame == <<>>

InitRequest ==
    /\ CALORIE_NINJAS_KEY \in BOOLEAN
    /\ FDC_API_KEY \in BOOLEAN
    /\ FALLBACK_MAP = FALLBACK_MAP_0
    /\ PREFERRED_TYPES = PREFERRED_TYPES_0
    /\ waiting = NoFrame
    /\ pc = "start"
    /\ result = Pending
    /\ calls = <<>>
    /\ cn_out = "pending"
    /\ fdc_out = "pending"
    /\ fdc_seen = BadJson
    /\ foods_sorted = <<>>
    /\ cand_i = 0
    /\ fj_pc = "idle"
    /\ attempt = 0
    /\ last_err = NoErr
    /\ fj_ret = FjNothing
    /\ fj_hist = <<>>
    /\ fj_gets = 0
    /\ resp_status = 0
    /\ resp_body = BadJson
    /\ sleeps = <<>>

\* one request to /nutrition/{food_name} of either service
Init ==
    /\ route \in {"app", "py"}
    /\ InitRequest
    /\ food_name \in
          IF CALORIE_NINJAS_KEY \/ FDC_API_KEY
          THEN FoodNames
          ELSE FoodNames \cup StaticNames
    /\ query = <<>>
    /\ grams = 0
    /\ include_survey = FALSE
    /\ max_retries = DEFAULT_MAX_RETRIES
    /\ arg = NoArg
    /\ out = NoArg

Next ==
    \/ get_nutrition
    \/ py_get_nutrition
    \/ fetch_json

Spec == Init /\ [][Next]_vars

\* the parameters of the /macros requests
MacroInputs ==
    { <<S_banana, 1540000, FALSE>>, <<upper(S_kiwi), 1000000, TRUE>> }

\* one request to /macros
InitMacros ==
    /\ route = "macros"
    /\ InitRequest
    /\ food_name = <<>>
    /\ \E in \in MacroInputs :
          /\ query = in[1]
          /\ grams = in[2]
          /\ include_survey = in[3]
    /\ max_retries = DEFAULT_MAX_RETRIES
    /\ arg = NoArg
    /\ out = NoArg

NextMacros ==
    \/ macros
    \/ fetch_json

SpecMacros == InitMacros /\ [][NextMacros]_vars

\* ------------------------------------------------------------------------
\* fetch_json called alone, with a budget of its caller's choice
\* ------------------------------------------------------------------------

InitFetch ==
    /\ route = "fetch_json"
    /\ InitRequest
    /\ ~CALORIE_NINJAS_KEY
    /\ FDC_API_KEY
    /\ food_name = <<>>
    /\ query = <<>>
    /\ grams = 0
    /\ include_survey = FALSE
    /\ max_retries \in 1..MaxBudget
    /\ arg = NoArg
    /\ out = NoArg

\* await fetch_json(client, url, params, max_retries=max_retries)
fetch_json_call ==
    /\ route = "fetch_json"
    /\ pc = "start"
    /\ fetch_json_enter(FdcSearchReq, calls)
    /\ pc' = "call"
    /\ UNCHANGED <<config, out, probe, query, result, cn_out, fdc_out,
                   fdc_seen>>

NextFetch ==
    \/ fetch_json_call
    \/ fetch_json

SpecFetch == InitFetch /\ [][NextFetch]_vars

\* client.get answers or raises within its timeout and asyncio.sleep
\* returns: a call that can take a step takes one
SpecFetchLive == SpecFetch /\ WF_vars(NextFetch)

\* ------------------------------------------------------------------------
\* The nutrient helpers applied alone
\* ------------------------------------------------------------------------

\* amounts of a measured entry: 0, 210.0, 0.1236, a string, null
MeasuredAmounts == {Num(0), Num(2100000), Num(1236), NonNumeric, None}

\* the keys of a measured entry: id and number, id alone, number alone
MeasuredKeys ==
    { <<1008, "208">>, <<1008, "">>, <<0, "208">>, <<1003, "">>,
      <<0, "203">>, <<1004, "204">>, <<1005, "205">> }

MeasuredEntries ==
    { FoodNutrient(k[1], k[2], a) : k \in MeasuredKeys, a \in MeasuredAmounts }

MeasuredLists == SeqsUpTo(MeasuredEntries, MaxMeasured)

\* label values: missing, 0, 200.0, a string
LabelValues == {None, Num(0), Num(2000000), NonNumeric}

\* the details given to _merge_nutrient_sources
MergeDetails ==
    { DetailBody("", "", Label(lk, lp, None, None), fn, None, "") :
        lk \in LabelValues, lp \in {None, Num(0), Num(100000)},
        fn \in MeasuredLists }

\* the details given to _extract_from_food_nutrients
ExtractDetails ==
    { DetailBody("", "", NoLabel, fn, None, "") : fn \in MeasuredLists }

\* a helper is about to be applied to arg, nothing else goes on
InitHelper(f, args) ==
    /\ route = f
    /\ InitRequest
    /\ ~CALORIE_NINJAS_KEY
    /\ ~FDC_API_KEY
    /\ food_name = <<>>
    /\ query = <<>>
    /\ grams = 0
    /\ include_survey = FALSE
    /\ max_retries = DEFAULT_MAX_RETRIES
    /\ arg \in args
    /\ out = NoArg

\* the helper returned value
helper_return(f, value) ==
    /\ route = f
    /\ pc = "start"
    /\ pc' = "done"
    /\ out' = value
    /\ UNCHANGED <<config, probe, query, result, calls, cn_out, fdc_out,
                   fdc_seen, fj_vars>>

apply_merge_nutrient_sources ==
    helper_return("_merge_nutrient_sources", _merge_nutrient_sources(arg))

apply_extract_from_food_nutrients ==
    helper_return("_extract_from_food_nutrients",
                  _extract_from_food_nutrients(arg))

\* dataType, len(foodNutrients) and score of the candidates given to sorted
RankedTypes ==
    {"Foundation", "SR Legacy", "Branded", "Survey (FNDDS)", "Experimental",
     ""}

RankedKeys ==
    { <<dt, c[1], c[2]>> : dt \in RankedTypes,
                           c \in {<<0, 0>>, <<2, 0>>, <<0, 5>>} }

\* the lists given to sorted: the fdcId of a candidate is its position in
\* the provider's order
RankedLists ==
    { [i \in 1..Len(ks) |-> Candidate(i, ks[i][1], "", ks[i][3], ks[i][2])] :
        ks \in SeqsUpTo(RankedKeys, MaxRanked) }

apply_sorted == helper_return("sorted", sorted(arg))

\* the records given to the scaling: absent, 0, 0.1236 and 20.0
ScaledRecords ==
    { Nutrients(kcal, p, None, Num(200000)) :
        kcal \in {None, Num(0), Num(1236), Num(200000)},
        p \in {None, Num(0), Num(1236), Num(200000)} }

\* the bases given to the scaling: absent, 0, negative, 3 g, 28.35 g, 50 g,
\* 100 g
ScaledBases ==
    {None, Num(0), Num(-500000), Num(30000), Num(283500), Num(500000),
     Num(1000000)}

\* the grams given to _scaled (the parameter is > 0)
ScaledGrams == {30000, 283500, 500000, 1000000, 1540000}

ScaledArgs ==
    [n : ScaledRecords, grams : ScaledGrams, grams_basis : ScaledBases]

\* the details and categories given to _guess_grams_basis: a label kcal
\* that is absent, 0, 0.1236 or 200.0, and a serving size that is missing, 0,
\* negative, 28.35, 50.0 or a string
BasisArgs ==
    { [detail |-> DetailBody("", "", Label(lk, None, None, None), <<>>,
                             size, "g"),
       data_type |-> dt] :
        lk \in {None, Num(0), Num(1236), Num(2000000)},
        size \in {None, Num(0), Num(-500000), Num(283500), Num(500000),
                  NonNumeric},
        dt \in RankedTypes }

\* macros: nutrients, grams_basis and per100 of a detail and its category
apply_guess_grams_basis ==
    LET nutrients == _merge_nutrient_sources(arg.detail)
        grams_basis == _guess_grams_basis(arg.detail, arg.data_type)
    IN  helper_return("_guess_grams_basis",
                      [nutrients |-> nutrients,
                       grams_basis |-> grams_basis,
                       per_100g |-> _per_100g(nutrients, grams_basis)])

apply_per_100g ==
    helper_return("_per_100g", _per_100g(arg.n, arg.grams_basis))

apply_scaled ==
    helper_return("_scaled", _scaled(arg.n, arg.grams, arg.grams_basis))

InitHelpers ==
    \/ InitHelper("_merge_nutrient_sources", MergeDetails)
    \/ InitHelper("_extract_from_food_nutrients", ExtractDetails)
    \/ InitHelper("sorted", RankedLists)
    \/ InitHelper("_per_100g", { a \in ScaledArgs : a.grams = 1000000 })
    \/ InitHelper("_scaled", ScaledArgs)
    \/ InitHelper("_guess_grams_basis", BasisArgs)

NextHelpers ==
    \/ apply_merge_nutrient_sources
    \/ apply_extract_from_food_nutrients
    \/ apply_sorted
    \/ apply_per_100g
    \/ apply_scaled
    \/ apply_guess_grams_basis

SpecHelpers == InitHelpers /\ [][NextHelpers]_vars

\* ------------------------------------------------------------------------
\* Both copies of get_nutrition, asked one after the other for the same food
\* while each provider gives one and the same answer
\* ------------------------------------------------------------------------

\* a provider whose key is not set is not asked
NoAnswer == [exc |-> "", status |-> 0, body |-> BadJson]

\* the answers fixed for the FDC request in flight, one for each client.get:
\* those of the candidate's detail, or those of the search
TheScript ==
    IF pc \in {"probe", "first"} THEN arg.detail[foods_sorted[cand_i].fdcId]
    ELSE arg.fdc

\* what client.get of fetch_json just gave is the answer fixed for it
AsScripted ==
    LET k == Len(fj_hist)
    IN  /\ k <= Len(TheScript)
        /\ LET a == TheScript[k]
           IN  IF fj_hist[k] = "net" THEN a.exc = last_err.type
               ELSE IF fj_hist[k] = "exc" THEN a.exc = fj_ret.exc.type
               ELSE /\ a.exc = ""
                    /\ a.status = resp_status
                    /\ fj_hist[k] \in {"200", "badjson"} => a.body = resp_body

\* what CalorieNinjas answers: any failure, any status, and any calories and
\* protein_g in the first item
CopyCnAnswers ==
    { a \in CnAnswers :
        a.body.json /\ a.body.items # <<>>
            => /\ a.body.items[1].fat_total_g = None
               /\ a.body.items[1].carbohydrates_total_g = None }

\* what FDC answers to the search: a 4xx status, or 200 with any body
CopyFdcAnswers ==
    { [exc |-> "", status |-> st, body |-> BadJson] : st \in STATUS_4XX }
    \cup { [exc |-> "", status |-> STATUS_OK, body |-> b] :
             b \in SimpleSearchBodies \cup {BadJson} }

\* foods = [...] of test_api, as the path parameter
CopyNames ==
    { S_banana, <<" ">> \o upper(S_banana), S_kiwi, <<" ">> }

\* python-api is asked first
InitCopies ==
    /\ route = "py"
    /\ InitRequest
    /\ food_name \in CopyNames
    /\ query = <<>>
    /\ grams = 0
    /\ include_survey = FALSE
    /\ max_retries = DEFAULT_MAX_RETRIES
    /\ arg \in [cn : IF CALORIE_NINJAS_KEY THEN CopyCnAnswers ELSE {NoAnswer},
                 fdc : IF FDC_API_KEY THEN { <<a>> : a \in CopyFdcAnswers }
                       ELSE {<<NoAnswer>>}]
    /\ out = NoArg

\* python-api has answered: its answer is kept and the same food is asked
\* of the app
test_api_next ==
    /\ route = "py"
    /\ pc = "done"
    /\ out = NoArg
    /\ out' = result
    /\ route' = "app"
    /\ pc' = "start"
    /\ result' = Pending
    /\ query' = <<>>
    /\ calls' = <<>>
    /\ cn_out' = "pending"
    /\ fdc_out' = "pending"
    /\ fdc_seen' = BadJson
    /\ UNCHANGED <<shared, waiting, food_name, grams, include_survey,
                   max_retries, arg, probe, fj_vars>>

\* fetch_json where client.get neither raises nor gets a 5xx
fetch_json_once ==
    /\ fetch_json_4xx \/ fetch_json_200
    /\ AsScripted'

NextCopies ==
    \/ py_get_nutrition
    \/ test_api_next
    \/ get_nutrition
    \/ fetch_json_once

SpecCopies == InitCopies /\ [][NextCopies]_vars

\* ------------------------------------------------------------------------
\* Two requests to the app in one event loop.  A request is first served
\* alone; then it is sent again while another request arrives, and the two
\* handlers interleave at their awaits.  Each request has the answers of the
\* providers fixed, one for each client.get it can issue.
\* ------------------------------------------------------------------------

Ok(body) == [exc |-> "", status |-> STATUS_OK, body |-> body]

Status(st) == [exc |-> "", status |-> st, body |-> BadJson]

Fails(type) == [exc |-> type, status |-> 0, body |-> BadJson]

\* the answer a, at once or behind one failure that is retried
Retried(a) == { <<a>>, <<Status(500), a>> }

\* four failures that are retried: the last one a 5xx, or a network error
Exhausting ==
    { <<Status(500), Fails("ReadTimeout"), Status(503), Status(503)>>,
      <<Status(503), Status(500), Status(500), Fails("ConnectError")>> }

\* what CalorieNinjas answers: a usable item, a 5xx, no items
ScriptedCnAnswers ==
    { [exc |-> "", status |-> STATUS_OK,
       body |-> CnBody(<<[calories |-> Num(5), protein_g |-> None,
                          fat_total_g |-> Num(0),
                          carbohydrates_total_g |-> Num(5)]>>)],
      [exc |-> "", status |-> 503, body |-> CnBadJson],
      [exc |-> "", status |-> STATUS_OK, body |-> CnBody(<<>>)] }

\* what FDC answers to the search of the simple flow
ScriptedSimpleSearches ==
    UNION { Retried(a) :
              a \in { Ok(SearchBody(<<[foodNutrients |->
                                         <<NutrientEntry("208", Num(5))>>]>>)),
                      Ok(SearchBody(<<>>)),
                      Ok(BadJson),
                      Status(404) } }
    \cup Exhausting

\* a request to /nutrition/{food_name} and the answers fixed for it
SimpleRequests ==
    { [route |-> "app", food_name |-> n, query |-> <<>>, grams |-> 0,
       include_survey |-> FALSE,
       arg |-> [cn |-> c, fdc |-> f, detail |-> <<>>]] :
        n \in {<<" ">> \o upper(S_banana), S_kiwi},
        c \in ScriptedCnAnswers, f \in ScriptedSimpleSearches }

\* the candidate of the pool with that fdcId
Listed(fdc_id) == CHOOSE c \in CandidatePool : c.fdcId = fdc_id

\* the detail of the bodies with that description
Described(description) ==
    CHOOSE b \in DetailBodies : b.description = description

\* what FDC answers to the search of the detailed flow
ScriptedSearches ==
    UNION { Retried(a) :
              a \in { Ok(SearchBody(<<Listed(11), Listed(22)>>)),
                      Ok(SearchBody(<<>>)),
                      Status(429) } }
    \cup { <<Fails("ConnectTimeout")>> }

\* what FDC answers to the detail requests, by fdcId
ScriptedDetails ==
    { (11 :> <<Ok(Described("bar"))>>) @@ (22 :> <<Ok(Described("void"))>>),
      (11 :> <<Ok(Described("void"))>>) @@ (22 :> <<Ok(Described("mix"))>>),
      (11 :> <<Ok(Described("void"))>>) @@ (22 :> <<Ok(Described("void"))>>),
      (11 :> <<Status(404)>>)
          @@ (22 :> <<Fails("ReadTimeout"), Ok(Described("void"))>>) }

\* a request to /macros and the answers fixed for it
MacroRequests ==
    { [route |-> "macros", food_name |-> <<>>, query |-> in[1],
       grams |-> in[2], include_survey |-> in[3],
       arg |-> [cn |-> NoAnswer, fdc |-> f, detail |-> d]] :
        in \in MacroInputs, f \in ScriptedSearches, d \in ScriptedDetails }

\* the other request: one whose providers fail, are retried, or give nothing
OtherRequests ==
    { r \in SimpleRequests :
        /\ r.food_name = S_kiwi
        /\ r.arg.cn.status = 503
        /\ Len(r.arg.fdc) > 1 }
    \cup { r \in MacroRequests :
             /\ r.include_survey
             /\ Len(r.arg.fdc) = 2
             /\ r.arg.fdc[2].status = STATUS_OK
             /\ r.arg.fdc[2].body.foods # <<>>
             /\ r.arg.detail[22][1].exc # "" }

\* the request is served alone
InitConcurrent ==
    /\ InitRequest
    /\ \E r \in SimpleRequests \cup MacroRequests :
          /\ route = r.route
          /\ food_name = r.food_name
          /\ query = r.query
          /\ grams = r.grams
          /\ include_survey = r.include_survey
          /\ arg = r.arg
    /\ max_retries = DEFAULT_MAX_RETRIES
    /\ out = NoArg

\* the local variables of the running handler and of the fetch_json it is in
CurrentFrame ==
    [route |-> route, food_name |-> food_name, grams |-> grams,
     include_survey |-> include_survey, max_retries |-> max_retries,
     arg |-> arg, out |-> out, query |-> query, pc |-> pc,
     result |-> result, calls |-> calls, cn_out |-> cn_out,
     fdc_out |-> fdc_out, fdc_seen |-> fdc_seen,
     foods_sorted |-> foods_sorted, cand_i |-> cand_i, fj_pc |-> fj_pc,
     attempt |-> attempt, last_err |-> last_err, fj_ret |-> fj_ret,
     fj_hist |-> fj_hist, fj_gets |-> fj_gets, resp_status |-> resp_status,
     resp_body |-> resp_body, sleeps |-> sleeps]

\* the frame of request r before its handler has started
StartFrame(r) ==
    [route |-> r.route, food_name |-> r.food_name, grams |-> r.grams,
     include_survey |-> r.include_survey,
     max_retries |-> DEFAULT_MAX_RETRIES, arg |-> r.arg, out |-> NoArg,
     query |-> r.query, pc |-> "start", result |-> Pending, calls |-> <<>>,
     cn_out |-> "pending", fdc_out |-> "pending", fdc_seen |-> BadJson,
     foods_sorted |-> <<>>, cand_i |-> 0, fj_pc |-> "idle", attempt |-> 0,
     last_err |-> NoErr, fj_ret |-> FjNothing, fj_hist |-> <<>>,
     fj_gets |-> 0, resp_status |-> 0, resp_body |-> BadJson,
     sleeps |-> <<>>]

\* mutant: query is a variable of the module, not of the handler
Resume_SharedQuery(f) ==
    /\ route' = f.route
    /\ food_name' = f.food_name
    /\ grams' = f.grams
    /\ include_survey' = f.include_survey
    /\ max_retries' = f.max_retries
    /\ arg' = f.arg
    /\ out' = f.out
    /\ UNCHANGED query
    /\ pc' = f.pc
    /\ result' = f.result
    /\ calls' = f.calls
    /\ cn_out' = f.cn_out
    /\ fdc_out' = f.fdc_out
    /\ fdc_seen' = f.fdc_seen
    /\ foods_sorted' = f.foods_sorted
    /\ cand_i' = f.cand_i
    /\ fj_pc' = f.fj_pc
    /\ attempt' = f.attempt
    /\ last_err' = f.last_err
    /\ fj_ret' = f.fj_ret
    /\ fj_hist' = f.fj_hist
    /\ fj_gets' = f.fj_gets
    /\ resp_status' = f.resp_status
    /\ resp_body' = f.resp_body
    /\ sleeps' = f.sleeps

\* the event loop goes on with the handler whose frame is f
Resume(f) ==
    /\ route' = f.route
    /\ food_name' = f.food_name
    /\ grams' = f.grams
    /\ include_survey' = f.include_survey
    /\ max_retries' = f.max_retries
    /\ arg' = f.arg
    /\ out' = f.out
    /\ query' = f.query
    /\ pc' = f.pc
    /\ result' = f.result
    /\ calls' = f.calls
    /\ cn_out' = f.cn_out
    /\ fdc_out' = f.fdc_out
    /\ fdc_seen' = f.fdc_seen
    /\ foods_sorted' = f.foods_sorted
    /\ cand_i' = f.cand_i
    /\ fj_pc' = f.fj_pc
    /\ attempt' = f.attempt
    /\ last_err' = f.last_err
    /\ fj_ret' = f.fj_ret
    /\ fj_hist' = f.fj_hist
    /\ fj_gets' = f.fj_gets
    /\ resp_status' = f.resp_status
    /\ resp_body' = f.resp_body
    /\ sleeps' = f.sleeps

\* the request served alone has its answer; it is sent again, with the same
\* answers fixed, while another request arrives
requests_arrive ==
    /\ waiting = NoFrame
    /\ pc = "done"
    /\ out = NoArg
    /\ \E r \in OtherRequests : waiting' = StartFrame(r)
    /\ Resume([StartFrame(CurrentFrame) EXCEPT
                  !.out = result,
                  !.query = IF route = "macros" THEN query ELSE <<>>])
    /\ UNCHANGED shared

\* the running handler is at an await, has not started or has returned
Suspended ==
    \/ pc \in {"start", "done"}
    \/ pc = "cn_get"
    \/ fj_pc \in {"get", "sleep"}

\* the event loop leaves the running handler where it is and goes on with the
\* other one
event_loop_switch ==
    /\ waiting # NoFrame
    /\ Suspended
    /\ waiting.pc # "done"
    /\ waiting' = CurrentFrame
    /\ Resume(waiting)
    /\ UNCHANGED shared

\* fetch_json where client.get gives the answer fixed for it
fetch_json_scripted ==
    \/ fetch_json_transient /\ AsScripted'
    \/ fetch_json_unhandled /\ AsScripted'
    \/ fetch_json_5xx /\ AsScripted'
    \/ fetch_json_4xx /\ AsScripted'
    \/ fetch_json_200 /\ AsScripted'
    \/ fetch_json_wake

NextConcurrent ==
    \/ get_nutrition
    \/ macros
    \/ fetch_json_scripted
    \/ requests_arrive
    \/ event_loop_switch

SpecConcurrent == InitConcurrent /\ [][NextConcurrent]_vars

\* ------------------------------------------------------------------------
\* Vocabulary of the properties
\* ------------------------------------------------------------------------

\* s is empty or whitespace only
Blank(s) == \A i \in 1..Len(s) : s[i] \in WHITESPACE

\* s lower-cased and trimmed, by the positions of its first and last
\* character that is not whitespace
Trimmed(s) ==
    LET keep == { i \in 1..Len(s) : s[i] \notin WHITESPACE }
        first == CHOOSE i \in keep : \A j \in keep : i <= j
        last == CHOOSE i \in keep : \A j \in keep : j <= i
    IN  IF keep = {} THEN <<>>
        ELSE [i \in 1..(last - first + 1) |-> LowerChar(s[first + i - 1])]

SimpleFlow == route \in {"app", "py"}

Done == pc = "done"

Answered == Done /\ result.kind = "response"

Source == result.body.source

\* number of the four numeric fields of r that are not absent
AllAbsent(r) ==
    /\ r.calories = None
    /\ r.protein = None
    /\ r.fat = None
    /\ r.carbs = None

Contacted(req) == \E i \in 1..Len(calls) : calls[i] = req

\* ------------------------------------------------------------------------
\* Properties
\* ------------------------------------------------------------------------

\* C1: for every non-blank food name and every configuration and provider
\* behaviour, the simple flow ends with exactly one result, a response whose
\* source is "calorieninjas", "fdc", "fallback" or "none"; there is no result
\* before it ends; and a response with source "none" has calories, protein,
\* fat and carbs all absent.
C1_OneResultWithKnownSource ==
    (SimpleFlow /\ ~Blank(food_name)) =>
        /\ ~Done => result = Pending
        /\ Done =>
            /\ result.kind = "response"
            /\ Source \in {"calorieninjas", "fdc", "fallback", "none"}
            /\ Source = "none" => AllAbsent(result.body)

C1_Witness ==
    /\ SimpleFlow /\ Done
    /\ CALORIE_NINJAS_KEY /\ FDC_API_KEY
    /\ Contacted(CnReq) /\ Contacted(FdcSearchReq)
    /\ result.kind = "response"
    /\ Source = "none"

\* C2: in the simple flow a response whose source is a live provider
\* ("calorieninjas" or "fdc") has at least one of the four numeric fields
\* present; a provider record with all four absent is not reported as that
\* provider's success.
C2_ProviderResultHasAField ==
    (SimpleFlow /\ Answered /\ Source \in {"calorieninjas", "fdc"}) =>
        ~AllAbsent(result.body)

\* C3: in the simple flow no failure met while contacting a provider
\* (exception, non-200 status, retry exhaustion or 4xx in fetch_json,
\* malformed body) reaches the caller: the request never ends in an error,
\* after a failed CalorieNinjas step the FDC step still runs when its key is
\* set, and after a failed FDC step the result is the static table's answer.
C3_ProviderFailuresAreSwallowed ==
    (SimpleFlow /\ ~Blank(food_name)) =>
        /\ result.kind # "error"
        /\ (Done /\ cn_out \in {"error", "status"}) =>
              /\ result.kind = "response"
              /\ FDC_API_KEY => Contacted(FdcSearchReq)
        /\ (Done /\ fdc_out \in {"error", "status"}) =>
              /\ result.kind = "response"
              /\ Source \in {"fallback", "none"}
              /\ Source = "fallback" <=> Trimmed(food_name) \in FALLBACK_KEYS

C3_Witness ==
    /\ route = "app" /\ Done
    /\ cn_out = "error"
    /\ fdc_out = "error"
    /\ ~fj_ret.ok /\ fj_ret.exc.status_code = 502
    /\ fj_gets = DEFAULT_MAX_RETRIES
    /\ result.kind = "response"
    /\ Source = "fallback"

\* the record the FDC step's code lookup gives for the body it read
FdcSeenRecord == FdcRecord(fdc_seen.foods[1])

\* C4: the simple flow tries CalorieNinjas, then FDC, then the static table,
\* then "none", and stops at the first success: a provider without a key is
\* never contacted; FDC is contacted only after the CalorieNinjas step ended
\* without a result; a CalorieNinjas result ends the request without FDC; and
\* source "fallback" is returned only when each live provider was
\* unconfigured, failed, or returned no usable macro (no hit, or a first hit
\* whose four macro fields are all absent).
C4_FixedOrderFirstSuccess ==
    SimpleFlow =>
        /\ ~CALORIE_NINJAS_KEY => ~Contacted(CnReq)
        /\ ~FDC_API_KEY => ~Contacted(FdcSearchReq)
        /\ calls \in {<<>>, <<CnReq>>, <<FdcSearchReq>>,
                      <<CnReq, FdcSearchReq>>}
        /\ Contacted(FdcSearchReq) =>
              cn_out \in {"skipped", "error", "status", "empty"}
        /\ cn_out = "ok" =>
              /\ Answered /\ Source = "calorieninjas"
              /\ ~Contacted(FdcSearchReq)
        /\ fdc_out = "ok" => Answered /\ Source = "fdc"
        /\ (Answered /\ Source = "fallback") =>
              /\ \/ ~CALORIE_NINJAS_KEY
                 \/ cn_out \in {"error", "status", "empty"}
              /\ \/ ~FDC_API_KEY
                 \/ fdc_out \in {"error", "status"}
                 \/ fdc_seen.json /\ fdc_seen.foods = <<>>
                 \/ fdc_seen.json /\ AllAbsent(FdcSeenRecord)

\* C5: a food name that is empty or whitespace only ends in the 400 error at
\* once; no request to any provider is made, whatever keys are configured.
C5_BlankNameIsRejected ==
    (SimpleFlow /\ Blank(food_name)) =>
        /\ pc \in {"start", "done"}
        /\ calls = <<>>
        /\ fj_gets = 0
        /\ Done => result.kind = "error" /\ result.status = 400

C5_Witness ==
    /\ SimpleFlow /\ Done
    /\ food_name = <<" ">>
    /\ CALORIE_NINJAS_KEY /\ FDC_API_KEY
    /\ result.kind = "error" /\ result.status = 400

\* C6: with neither key configured the simple flow contacts nobody and is
\* the static table's lookup of the lower-cased, trimmed name: a key of the
\* table gives that row's calories, protein, fat and carbs with source
\* "fallback" (banana gives 105/1/0/27), any other non-blank name gives
\* source "none".
C6_StaticTableWhenUnconfigured ==
    (SimpleFlow /\ ~CALORIE_NINJAS_KEY /\ ~FDC_API_KEY /\ Done
        /\ ~Blank(food_name)) =>
        /\ calls = <<>>
        /\ result.kind = "response"
        /\ \A row \in FALLBACK_ROWS :
              Trimmed(food_name) = row[1] =>
                 result.body = NutritionResponse(Num(row[2]), Num(row[3]),
                                   Num(row[4]), Num(row[5]), "fallback")
        /\ Trimmed(food_name) = S_banana =>
              result.body = NutritionResponse(Num(105), Num(1), Num(0),
                                              Num(27), "fallback")
        /\ Trimmed(food_name) \notin FALLBACK_KEYS => Source = "none"

C6_Witness ==
    /\ SimpleFlow /\ Done
    /\ ~CALORIE_NINJAS_KEY /\ ~FDC_API_KEY
    /\ food_name = <<"\t">> \o upper(S_banana) \o <<"\n">>
    /\ result.kind = "response"
    /\ result.body.calories = Num(105)
    /\ Source = "fallback"

\* the call of fetch_json is over
Left == fj_pc \in {"left", "idle"} /\ fj_hist # <<>>

\* C7 as stated: with the budget of 4, three 5xx answers and then a 200
\* make the call return the 200 body; four 5xx answers make it fail with the
\* 503 "Upstream unavailable" error after exactly four requests.
C7_ExhaustionIsUpstreamUnavailable ==
    /\ (Left /\ fj_hist = <<"5xx", "5xx", "5xx", "200">>) =>
          fj_ret.ok /\ fj_gets = 4
    /\ (Left /\ fj_hist = <<"5xx", "5xx", "5xx", "5xx">>) =>
          /\ ~fj_ret.ok
          /\ fj_ret.exc.status_code = 503
          /\ fj_ret.exc.detail.msg = "Upstream unavailable"
          /\ fj_gets = 4

\* C7 amended: with the budget of 4, three 5xx answers and then a 200 make
\* the call return the 200 body after four requests; four 5xx answers make it
\* fail, after exactly four requests, with the HTTPException of status 502
\* "USDA 5xx" that reports the status of the last answer.
C7_ExhaustionReportsLast5xx ==
    /\ (Left /\ fj_hist = <<"5xx", "5xx", "5xx", "200">>) =>
          /\ fj_ret.ok
          /\ fj_ret.body = resp_body /\ resp_status = STATUS_OK
          /\ fj_gets = 4
    /\ (Left /\ fj_hist = <<"5xx", "5xx", "5xx", "5xx">>) =>
          /\ ~fj_ret.ok
          /\ fj_ret.exc.type = "HTTPException"
          /\ fj_ret.exc.status_code = 502
          /\ fj_ret.exc.detail = Detail("USDA 5xx", resp_status, <<>>)
          /\ resp_status \in STATUS_5XX
          /\ fj_gets = 4
    /\ fj_gets <= 4

C7_Witness ==
    /\ fj_pc = "left"
    /\ fj_hist = <<"5xx", "5xx", "5xx", "5xx">>
    /\ ~fj_ret.ok
    /\ fj_gets = 4

\* C8: a 4xx answer ends the call of fetch_json at once, at whatever attempt
\* it arrives: the call raises an HTTPException with the answer's status
\* code, the 4xx answer is the last one, no request is issued after it and no
\* backoff sleep follows it.
C8_ClientErrorIsNotRetried ==
    \A i \in 1..Len(fj_hist) :
        fj_hist[i] = "4xx" =>
            /\ i = Len(fj_hist)
            /\ fj_pc \in {"left", "idle"}
            /\ ~fj_ret.ok
            /\ fj_ret.exc.type = "HTTPException"
            /\ resp_status \in STATUS_4XX
            /\ fj_ret.exc.status_code = resp_status
            /\ fj_gets = i
            /\ Len(sleeps) = i - 1

C8_Witness ==
    /\ fj_pc = "left"
    /\ fj_hist = <<"5xx", "net", "4xx">>
    /\ fj_ret.exc.status_code = 429
    /\ Len(sleeps) = 2

\* ------------------------------------------------------------------------
\* Properties of the detailed flow, stated of SpecMacros
\* ------------------------------------------------------------------------

DetailedFlow == route = "macros"

\* calls[i] is a request for a food's detail
IsDetailReq(req) == req.path = "food"

NoDetailRequested == \A i \in 1..Len(calls) : ~IsDetailReq(calls[i])

\* C9: in the detailed flow without an FDC key the request ends with the
\* error 500 "FDC_API_KEY not set" in its first step: no request of any kind
\* is ever issued, fetch_json is never entered, and the request never ends
\* with a response, whatever the CalorieNinjas key and the static table hold.
C9_MissingKeyFailsBeforeAnyRequest ==
    (DetailedFlow /\ ~FDC_API_KEY) =>
        /\ calls = <<>>
        /\ fj_pc = "idle"
        /\ fj_gets = 0
        /\ pc \in {"start", "done"}
        /\ Done => /\ result.kind = "error"
                   /\ result.status = 500
                   /\ result.detail = Detail("FDC_API_KEY not set", 0, <<>>)

\* C9's case: banana is a key of the static table and the CalorieNinjas key is
\* set, and still the request failed with 500
C9_Witness ==
    /\ DetailedFlow
    /\ ~FDC_API_KEY
    /\ CALORIE_NINJAS_KEY
    /\ query = S_banana
    /\ Done
    /\ result.status = 500

\* the search of the detailed flow returned a body whose food list is empty
\* or missing, and macros has not yet looked at it
SearchGaveNoFoods ==
    /\ DetailedFlow
    /\ pc = "search"
    /\ fj_pc = "left"
    /\ fj_ret.ok
    /\ fj_ret.body.foods = <<>>

\* the request ended with the 404 that names the query as it was given
NotFoundNamingQuery ==
    /\ Done
    /\ result.kind = "error"
    /\ result.status = 404
    /\ result.detail = Detail("No FDC foods for", 0, query)

\* C10: when the search of the detailed flow returns an empty or missing food
\* list, the next step of the request ends it with the error 404 whose detail
\* names the query string as given, having issued the search and nothing else;
\* a request that ended with that 404 never issued a detail request.
C10_EmptySearchIsNotFound ==
    /\ [][SearchGaveNoFoods =>
            /\ NotFoundNamingQuery'
            /\ calls' = calls
            /\ calls = <<MacrosSearchReq>>]_vars
    /\ []((DetailedFlow /\ Done /\ result.status = 404
              /\ result.detail.msg = "No FDC foods for")
            => NoDetailRequested /\ foods_sorted = <<>>)

\* C10's case: the upper-case query got an empty list after a retry, and the
\* request ended with the 404 naming it
C10_Witness ==
    /\ DetailedFlow
    /\ query = upper(S_kiwi)
    /\ calls = <<MacrosSearchReq>>
    /\ fj_ret.ok
    /\ fj_ret.body.foods = <<>>
    /\ fj_gets = 2
    /\ NotFoundNamingQuery

\* ------------------------------------------------------------------------
\* Properties of the nutrient helpers, stated of SpecHelpers
\* ------------------------------------------------------------------------

\* helper f was applied to arg and returned out
Applied(f) == route = f /\ pc = "done"

\* the label-declared value of a slot: the number under the label key
LabelValue(detail, key) ==
    LET v == detail.labelNutrients[key]
    IN  IF v.k = "num" THEN v ELSE None

\* the slots of a record, with the label key, the id and the code of each
SLOTS ==
    { [slot |-> "kcal", label |-> "calories", id |-> 1008, code |-> "208"],
      [slot |-> "protein_g", label |-> "protein", id |-> 1003, code |-> "203"],
      [slot |-> "fat_g", label |-> "fat", id |-> 1004, code |-> "204"],
      [slot |-> "carbs_g", label |-> "carbohydrates", id |-> 1005,
       code |-> "205"] }

\* what the merge gives for a slot before the derived-kcal rule: the label
\* value if there is one, else the measured value
LabelPreferred(label, measured) ==
    CASE label # None -> label
      [] label = None /\ measured # None -> measured
      [] OTHER -> None

IdAmount(fn, id) ==
    LET hits == { i \in 1..Len(fn) : fn[i].id = id /\ fn[i].amount.k = "num" }
    IN  IF hits = {} THEN None
        ELSE fn[CHOOSE i \in hits : \A j \in hits : j <= i].amount

CodeAmount(fn, code) ==
    LET hits == { i \in 1..Len(fn) :
                    fn[i].number = code /\ fn[i].amount.k = "num" }
    IN  IF hits = {} THEN None
        ELSE fn[CHOOSE i \in hits : \A j \in hits : j <= i].amount

\* the measured value of a slot: the id-keyed amount if there is one, else
\* the code-keyed amount, else absent
MeasuredValue(detail, s) ==
    IF IdAmount(detail.foodNutrients, s.id) # None
    THEN IdAmount(detail.foodNutrients, s.id)
    ELSE CodeAmount(detail.foodNutrients, s.code)

Slot(name) == CHOOSE s \in SLOTS : s.slot = name

\* the merged value of a slot of the detail, before the derived-kcal rule
MergedValue(detail, name) ==
    LabelPreferred(LabelValue(detail, Slot(name).label),
                   MeasuredValue(detail, Slot(name)))

\* x is v rounded to 3 decimals
Rounds3(x, v) == x % 10 = 0 /\ 2 * Abs(x - v) <= 10

\* C12: the kcal _merge_nutrient_sources returns for a detail is its label
\* or measured kcal, unchanged, when the detail has one; it is 4 * protein +
\* 4 * carbs + 9 * fat, absent macros counting 0, rounded to 3 decimals, when
\* the detail has no kcal and at least one of protein, fat, carbs; it is
\* absent when the detail has none of the four.
C12_DerivedKcal ==
    Applied("_merge_nutrient_sources") =>
        LET kcal == MergedValue(arg, "kcal")
            p == MergedValue(arg, "protein_g")
            f == MergedValue(arg, "fat_g")
            c == MergedValue(arg, "carbs_g")
            n(v) == IF v = None THEN 0 ELSE v.n
        IN  IF kcal # None THEN out.kcal = kcal
            ELSE IF p = None /\ f = None /\ c = None THEN out.kcal = None
            ELSE /\ out.kcal # None
                 /\ Rounds3(out.kcal.n, 4 * n(p) + 4 * n(c) + 9 * n(f))

\* the rank of a category
CategoryRank(dt) ==
    CASE dt = "Foundation" -> 0
      [] dt = "SR Legacy" -> 1
      [] dt = "Branded" -> 2
      [] dt = "Survey (FNDDS)" -> 3
      [] OTHER -> 4

\* x and y are equal on the three keys of the ranking
SameRank(x, y) ==
    /\ CategoryRank(x.dataType) = CategoryRank(y.dataType)
    /\ x.nutrient_count = y.nutrient_count
    /\ x.score = y.score

\* x ranks strictly before y: lower category rank, then more nutrient
\* fields, then higher score
RanksBefore(x, y) ==
    \/ CategoryRank(x.dataType) < CategoryRank(y.dataType)
    \/ /\ CategoryRank(x.dataType) = CategoryRank(y.dataType)
       /\ \/ x.nutrient_count > y.nutrient_count
          \/ x.nutrient_count = y.nutrient_count /\ x.score > y.score

\* C13: sorted(foods, key=rank_key) is a rearrangement of the provider's list
\* in which, of any two candidates, the earlier one ranks strictly before the
\* later one on (category rank 0..4, more nutrient fields, higher score), or
\* the two are equal on all three keys and are in the provider's order.
C13_RankingOrder ==
    Applied("sorted") =>
        /\ Len(out) = Len(arg)
        /\ \A i \in 1..Len(out) :
              out[i].fdcId \in 1..Len(arg) /\ out[i] = arg[out[i].fdcId]
        /\ \A i \in 1..Len(out) : \A j \in 1..Len(out) :
              i < j =>
                 \/ RanksBefore(out[i], out[j])
                 \/ SameRank(out[i], out[j]) /\ out[i].fdcId < out[j].fdcId

\* C13's case: Branded, Foundation, SR Legacy with equal counts and scores
\* come out as Foundation, SR Legacy, Branded
C13_Witness ==
    /\ Applied("sorted")
    /\ Len(arg) = 3
    /\ \A i \in 1..3 : arg[i].nutrient_count = 2 /\ arg[i].score = 0
    /\ <<arg[1].dataType, arg[2].dataType, arg[3].dataType>>
          = <<"Branded", "Foundation", "SR Legacy">>
    /\ <<out[1].fdcId, out[2].fdcId, out[3].fdcId>> = <<2, 3, 1>>

\* ------------------------------------------------------------------------
\* Probing, stated of SpecMacros
\* ------------------------------------------------------------------------

\* the normalised detail has at least one macro field
YieldsMacro(detail) ==
    \E s \in SLOTS : _merge_nutrient_sources(detail)[s.slot] # None

\* the positions up to i of the ranked candidates that have an fdcId
Fetchable(i) == { j \in 1..i : foods_sorted[j].fdcId # 0 }

\* the k-th position of Fetchable(i), in ranked order
KthFetchable(i, k) ==
    CHOOSE j \in Fetchable(i) :
        Cardinality({ m \in Fetchable(i) : m <= j }) = k

\* the requests so far are the search and one detail request for each
\* candidate with an fdcId up to position i, in ranked order, and then extra
ProbedUpTo(i, extra) ==
    LET n == Cardinality(Fetchable(i))
    IN  /\ Len(calls) = 1 + n + Len(extra)
        /\ calls[1] = MacrosSearchReq
        /\ \A k \in 1..n :
              calls[1 + k] = DetailReq(foods_sorted[KthFetchable(i, k)].fdcId)
        /\ \A k \in 1..Len(extra) : calls[1 + n + k] = extra[k]

\* a detail fetch of the probe loop (of the fallback) succeeded and macros
\* has not yet looked at the detail
ProbeAnswered == DetailedFlow /\ pc = "probe" /\ fj_pc = "left" /\ fj_ret.ok

FirstAnswered == DetailedFlow /\ pc = "first" /\ fj_pc = "left" /\ fj_ret.ok

\* the request ended with a response for the candidate at position i
RespondedWith(i) ==
    /\ Done
    /\ result.kind = "response"
    /\ result.body.fdcId = foods_sorted[i].fdcId
    /\ result.body.dataType = foods_sorted[i].dataType

\* C14: probing goes through the ranked candidates that have an fdcId, in
\* ranked order and one detail request each.  The first detail that yields a
\* macro field ends the request with a response for its candidate and no
\* further request; a detail that yields none makes the loop request the next
\* such candidate, or, when there is none left, the detail of the first
\* ranked candidate.  When that last fetch succeeds the request ends with a
\* response for the first ranked candidate, whose two nutrient views are all
\* absent if the detail yields no macro field.
C14_ProbingChoosesEarliestUsable ==
    /\ []((DetailedFlow /\ pc = "probe") => ProbedUpTo(cand_i, <<>>))
    /\ []((DetailedFlow /\ pc = "first") =>
             ProbedUpTo(Len(foods_sorted),
                        <<DetailReq(foods_sorted[1].fdcId)>>))
    /\ [][(ProbeAnswered /\ YieldsMacro(fj_ret.body)) =>
             /\ RespondedWith(cand_i)'
             /\ UNCHANGED <<calls, cand_i, foods_sorted>>]_vars
    /\ [][(ProbeAnswered /\ ~YieldsMacro(fj_ret.body)) =>
             /\ pc' \in {"probe", "first"}
             /\ pc' = "probe" => cand_i' > cand_i
             /\ pc' = "first" <=> Fetchable(Len(foods_sorted)) = Fetchable(cand_i)
             /\ UNCHANGED <<result, foods_sorted>>]_vars
    /\ [][FirstAnswered =>
             /\ RespondedWith(1)'
             /\ UNCHANGED <<calls, foods_sorted>>
             /\ ~YieldsMacro(fj_ret.body) =>
                   /\ result'.body.per_100g = NoNutrients
                   /\ result'.body.scaled_per_grams = NoNutrients]_vars

\* C14's first case: two candidates, the detail of the first yielded nothing,
\* the detail of the second did, and the response is for the second
C14_Witness ==
    /\ DetailedFlow
    /\ Len(foods_sorted) = 2
    /\ cand_i = 2
    /\ Len(calls) = 3
    /\ RespondedWith(2)
    /\ result.body.per_100g.kcal # None

\* C14's second case: both candidates were probed, neither yielded a macro
\* field, and the response is for the first with all views absent
C14_WitnessFallback ==
    /\ DetailedFlow
    /\ Len(foods_sorted) = 2
    /\ Len(calls) = 4
    /\ RespondedWith(1)
    /\ result.body.per_100g = NoNutrients
    /\ result.body.scaled_per_grams = NoNutrients

\* ------------------------------------------------------------------------
\* Scaling, stated of SpecHelpers
\* ------------------------------------------------------------------------

\* a scaling helper was applied; the amount it scales to is 100 g for
\* _per_100g and the requested grams for _scaled
ScalingApplied == Applied("_per_100g") \/ Applied("_scaled")

ScaledTo == IF route = "_per_100g" THEN 1000000 ELSE arg.grams

\* the basis is absent or not positive
UnusableBasis(basis) == basis = None \/ basis.n <= 0

\* x is v * a / b rounded to 3 decimals (a, b > 0)
IsScaled(x, v, a, b) ==
    LET g == Gcd(a, b)
    IN  /\ x % 10 = 0
        /\ Abs(x * (b \div g) - v * (a \div g)) <= 5 * (b \div g)

\* C15: _per_100g and _scaled return four absent fields when the grams basis
\* is absent or <= 0, whatever the record and the grams; with a positive
\* basis an absent field stays absent and a present field is its value times
\* 100 / basis (times grams / basis), rounded to 3 decimals.
C15_ScalingAndUnusableBasis ==
    ScalingApplied =>
        IF UnusableBasis(arg.grams_basis)
        THEN \A s \in SLOTS : out[s.slot] = None
        ELSE \A s \in SLOTS :
                IF arg.n[s.slot] = None
                THEN out[s.slot] = None
                ELSE /\ out[s.slot] # None
                     /\ IsScaled(out[s.slot].n, arg.n[s.slot].n, ScaledTo,
                                 arg.grams_basis.n)

\* C15's first case: a record with present fields and no basis
C15_Witness ==
    /\ Applied("_scaled")
    /\ arg.grams_basis = None
    /\ arg.n.kcal = Num(200000)
    /\ arg.n.protein_g = Num(0)
    /\ out = NoNutrients

\* C16: _scaled(record, basis, basis) with a basis > 0, and
\* _per_100g(record, 100), give the record back: absent fields absent,
\* present fields equal to their value rounded to 3 decimals.
C16_ScalingRoundTrip ==
    (/\ ScalingApplied
     /\ ~UnusableBasis(arg.grams_basis)
     /\ ScaledTo = arg.grams_basis.n) =>
        \A s \in SLOTS :
            IF arg.n[s.slot] = None
            THEN out[s.slot] = None
            ELSE out[s.slot] # None
                    /\ Rounds3(out[s.slot].n, arg.n[s.slot].n)

\* C16's case: 28.35 g of a record given per 28.35 g; 0.1236 comes back as
\* 0.124, 20.0 as 20.0, absent as absent
C16_Witness ==
    /\ Applied("_scaled")
    /\ arg.grams = 283500
    /\ arg.grams_basis = Num(283500)
    /\ arg.n = Nutrients(Num(1236), None, None, Num(200000))
    /\ out = Nutrients(Num(1240), None, None, Num(200000))

\* ------------------------------------------------------------------------
\* Measured extraction, stated of SpecHelpers
\* ------------------------------------------------------------------------

\* C17: for every macro slot, _extract_from_food_nutrients returns the
\* amount of the entry carrying the slot's id (1008/1003/1004/1005) whenever
\* such an entry with a numeric amount exists, 0 included and whatever the
\* entries carrying the slot's code say; it returns the code-keyed amount
\* only when no id-keyed amount exists, and absent when neither exists.
C17_IdTakesPrecedence ==
    Applied("_extract_from_food_nutrients") =>
        \A s \in SLOTS : out[s.slot] = MeasuredValue(arg, s)

\* ------------------------------------------------------------------------
\* Absence is not zero, stated of Spec
\* ------------------------------------------------------------------------

\* the first entry of the hit that carries the code has a numeric value
CarriesValue(food, code) ==
    LET hits == { i \in 1..Len(food.foodNutrients) :
                    food.foodNutrients[i].nutrientNumber = code }
        first == CHOOSE i \in hits : \A j \in hits : i <= j
    IN  hits # {} /\ food.foodNutrients[first].value.k = "num"

\* C18: in the simple flow the FDC step hands over to the static table only
\* when FDC is unconfigured, its call failed, or the record it obtained has
\* all four fields absent: whenever the step read a first hit without
\* failing and the hit carries a present value (0 included) for one of the
\* codes 208/203/204/205, the request is answered with source "fdc".
C18_ZeroIsNotAbsent ==
    (/\ SimpleFlow
     /\ Done
     /\ fdc_out \in {"ok", "unusable"}
     /\ \E i \in 1..Len(MACRO_CODES) :
           CarriesValue(fdc_seen.foods[1], MACRO_CODES[i])) =>
        Answered /\ Source = "fdc"

\* ------------------------------------------------------------------------
\* Grams basis, stated of SpecHelpers
\* ------------------------------------------------------------------------

GENERIC_CATEGORIES == {"Foundation", "SR Legacy"}

\* the serving size the detail declares: its number, absent when the detail
\* has none
DeclaredServing(detail) ==
    IF detail.servingSize.k = "num" THEN detail.servingSize ELSE None

\* C19 as stated: the basis is 100 for Foundation and SR Legacy whatever the
\* declared serving size; for Branded and every other category it is the
\* declared serving size, absent if none is declared; and per_100g of a
\* generic-category detail equals its normalised record.
C19_BasisIsDeclaredServing ==
    Applied("_guess_grams_basis") =>
        IF arg.data_type \in GENERIC_CATEGORIES
        THEN /\ out.grams_basis = Num(1000000)
             /\ out.per_100g = out.nutrients
        ELSE out.grams_basis = DeclaredServing(arg.detail)

\* C19: the basis is 100 for Foundation and SR Legacy whatever the declared
\* serving size; for Branded and every other category (survey, unknown,
\* missing) it is the declared serving size when that is a number other than
\* 0, and absent when none is declared or the declared size is 0; per_100g of
\* a generic-category detail equals its normalised record rounded to 3
\* decimals.
C19_BasisIsNonZeroDeclaredServing ==
    Applied("_guess_grams_basis") =>
        IF arg.data_type \in GENERIC_CATEGORIES
        THEN /\ out.grams_basis = Num(1000000)
             /\ \A s \in SLOTS :
                   IF out.nutrients[s.slot] = None
                   THEN out.per_100g[s.slot] = None
                   ELSE /\ out.per_100g[s.slot] # None
                        /\ Rounds3(out.per_100g[s.slot].n,
                                   out.nutrients[s.slot].n)
        ELSE out.grams_basis =
                IF DeclaredServing(arg.detail) = Num(0) THEN None
                ELSE DeclaredServing(arg.detail)

\* C19's case: a Branded detail that declares a serving size of 0 has no
\* basis
C19_Witness ==
    /\ Applied("_guess_grams_basis")
    /\ arg.data_type = "Branded"
    /\ arg.detail.servingSize = Num(0)
    /\ out.grams_basis = None

\* ------------------------------------------------------------------------
\* The retry loop, stated of SpecFetchLive
\* ------------------------------------------------------------------------

\* fetch_json was called and has not returned or raised yet
InCall == fj_pc \in {"get", "sleep"}

Returned200 == fj_pc = "left" /\ fj_hist[Len(fj_hist)] = "200"

\* the answers that make the loop go on: a connection failure, a read
\* timeout or a protocol reset ("net"), and a 5xx status
RETRYABLE == {"net", "5xx"}

\* the answers before position n of this call were all retryable failures
RetryableUpTo(n) == \A i \in 1..n : fj_hist[i] \in RETRYABLE

\* C20: a call of fetch_json with max_retries >= 1 issues at least 1 and at
\* most max_retries requests and then returns or raises; each request but
\* the first follows a retryable failure of the one before (connection
\* failure, read timeout, protocol reset, 5xx); the wait after the failed
\* attempt k = 0, 1, 2, ... is BACKOFF_BASE * 2^k, each wait twice the one
\* before; and a 200 answer with a JSON body ends the loop with that body as
\* the result.
C20_BoundedRetryWithDoublingBackoff ==
    /\ [](fj_pc # "idle" =>
            /\ 1 <= fj_gets /\ fj_gets <= max_retries
            /\ attempt = fj_gets - 1
            /\ Len(fj_hist) = IF fj_pc = "get" THEN fj_gets - 1 ELSE fj_gets
            /\ RetryableUpTo(fj_gets - 1)
            /\ fj_pc = "sleep" => RetryableUpTo(fj_gets)
            /\ Len(sleeps) =
                  Cardinality({ i \in 1..Len(fj_hist) :
                                  fj_hist[i] \in RETRYABLE })
            /\ \A k \in 0..(Len(sleeps) - 1) :
                  sleeps[k + 1] = BACKOFF_BASE * 2^k
            /\ \A i \in 1..(Len(sleeps) - 1) : sleeps[i + 1] = 2 * sleeps[i]
            /\ Returned200 =>
                  /\ fj_ret.ok
                  /\ fj_ret.body = resp_body
                  /\ resp_status = STATUS_OK)
    /\ [][fj_gets' > fj_gets =>
            \/ fj_pc = "idle" /\ fj_gets' = 1
            \/ /\ fj_pc = "sleep"
               /\ fj_gets' = fj_gets + 1
               /\ fj_hist[Len(fj_hist)] \in RETRYABLE]_vars
    /\ [][(fj_pc = "get" /\ fj_pc' = "left" /\ fj_hist'[Len(fj_hist')] = "200")
            => fj_ret'.ok /\ fj_ret'.body.json /\ UNCHANGED fj_gets]_vars
    /\ (InCall ~> fj_pc = "left")

\* C20's case: with a budget of 4 every attempt failed, by 5xx or by a
\* connection failure, the waits were 0.35, 0.7, 1.4 and 2.8 s, and the call
\* ended after the fourth request
C20_Witness ==
    /\ route = "fetch_json"
    /\ max_retries = 4
    /\ fj_pc = "left"
    /\ fj_gets = 4
    /\ fj_hist = <<"5xx", "net", "5xx", "net">>
    /\ sleeps = <<35, 70, 140, 280>>
    /\ ~fj_ret.ok

\* ------------------------------------------------------------------------
\* C22
\* ------------------------------------------------------------------------

\* the detail requests of the request so far, in the order they were issued
DetailCalls == SelectSeq(calls, IsDetailReq)

\* how often the detail of fdc_id was requested
TimesRequested(fdc_id) ==
    Cardinality({ i \in 1..Len(DetailCalls) : DetailCalls[i].fdcId = fdc_id })

\* how many ranked candidates carry fdc_id
TimesListed(fdc_id) ==
    Cardinality({ j \in 1..Len(foods_sorted) :
                    foods_sorted[j].fdcId = fdc_id })

\* no detail is requested more often than candidates carry its id, but for
\* spare extra requests of the id of the first ranked candidate
NoRepeatedDetail(spare) ==
    \A i \in 1..Len(DetailCalls) :
        LET fdc_id == DetailCalls[i].fdcId
        IN  TimesRequested(fdc_id)
                <= TimesListed(fdc_id)
                       + (IF fdc_id = foods_sorted[1].fdcId THEN spare ELSE 0)

\* a detail fetch has ended with an error and macros has not yet resumed
DetailFailed ==
    /\ DetailedFlow
    /\ pc \in {"probe", "first"}
    /\ fj_pc = "left"
    /\ ~fj_ret.ok

\* the step ends the request with the error fetch_json raised (an exception
\* that is not an HTTPException surfaces as the framework's 500)
EndsWithError(exc) ==
    /\ pc' = "done"
    /\ result'.kind = "error"
    /\ IF exc.type = "HTTPException"
       THEN result'.status = exc.status_code /\ result'.detail = exc.detail
       ELSE result'.status = 500

\* a request is issued behind an earlier one only when the earlier fetch has
\* returned
ProbingIsSequential ==
    [][DetailedFlow /\ calls # <<>> /\ calls' # calls
          => /\ fj_pc = "left"
             /\ fj_ret.ok
             /\ calls' = Append(calls, calls'[Len(calls')])]_vars

\* a failed detail fetch ends the request with its error, no later candidate
\* is requested
DetailFailureEndsRequest ==
    [][DetailFailed => EndsWithError(fj_ret.exc) /\ calls' = calls]_vars

\* there are never more detail requests than ranked candidates and none is
\* made twice
DetailFetchedAtMostOnce ==
    [](DetailedFlow =>
          /\ Len(DetailCalls) <= Len(foods_sorted)
          /\ NoRepeatedDetail(0))

\* C22: in the detailed flow the details are requested one after the other,
\* each only when the fetch before it has returned; there are never more
\* detail requests than ranked candidates and no candidate's detail is
\* requested twice; a detail fetch that fails ends the whole request with its
\* error and no later candidate is probed.
C22_SequentialProbingOncePerCandidate ==
    /\ ProbingIsSequential
    /\ DetailFetchedAtMostOnce
    /\ DetailFailureEndsRequest

\* what does hold: the fallback repeats the request for the first ranked
\* candidate, so there is at most one detail request more than candidates
DetailFetchedAtMostOncePlusFallback ==
    DetailedFlow =>
        /\ Len(DetailCalls) <= Len(foods_sorted) + 1
        /\ NoRepeatedDetail(1)

\* ------------------------------------------------------------------------
\* C23
\* ------------------------------------------------------------------------

\* both copies have answered the same request
BothAnswered == route = "app" /\ Done /\ out # NoArg

\* what a client sees of an answer: the status, and the source tag and the
\* four fields of the body
Observed(res) ==
    <<res.kind, res.status, res.body.source, res.body.calories,
      res.body.protein, res.body.fat, res.body.carbs>>

\* C23: asked for the same food under the same keys, with one and the same
\* answer from each provider (any status but 5xx, any list, any values), the
\* python-api copy and the app copy of get_nutrition return the same source
\* tag and the same four fields.
C23_CopiesAreEquivalent ==
    BothAnswered => Observed(result) = Observed(out)

\* FDC answered the search with a first hit in which the first entry of one
\* of the four codes carries a value that is neither a number nor null
NonNumericMacroOffered ==
    /\ FDC_API_KEY
    /\ arg.fdc[1].status = STATUS_OK
    /\ arg.fdc[1].body.json
    /\ arg.fdc[1].body.foods # <<>>
    /\ LET ns == arg.fdc[1].body.foods[1].foodNutrients
       IN  \E i \in 1..Len(ns) :
              /\ \E c \in 1..Len(MACRO_CODES) :
                    ns[i].nutrientNumber = MACRO_CODES[c]
              /\ \A j \in 1..(i - 1) :
                    ns[j].nutrientNumber # ns[i].nutrientNumber
              /\ ns[i].value.k \notin {"num", "null"}

\* what does hold: the copies agree unless FDC is reached with such a value
CopiesAgreeOnNumericValues ==
    BothAnswered /\ ~(NonNumericMacroOffered /\ fdc_out # "pending")
        => Observed(result) = Observed(out)

\* ------------------------------------------------------------------------
\* C21
\* ------------------------------------------------------------------------

\* the requests in progress or answered: the running one and the suspended
InFlight == {CurrentFrame} \cup (IF waiting = NoFrame THEN {} ELSE {waiting})

\* request f was served alone before and has now been answered again
AnsweredAgain(f) == f.out # NoArg /\ f.pc = "done"

\* the static table holds the rows of the source, the list its three types
SharedAsBuilt ==
    /\ DOMAIN FALLBACK_MAP = { row[1] : row \in FALLBACK_ROWS }
    /\ \A row \in FALLBACK_ROWS :
          FALLBACK_MAP[row[1]] =
              [calories |-> row[2], protein |-> row[3], fat |-> row[4],
               carbs |-> row[5]]
    /\ PREFERRED_TYPES = <<"Foundation", "SR Legacy", "Branded">>

\* no step changes the keys
KeysUntouched ==
    /\ CALORIE_NINJAS_KEY' = CALORIE_NINJAS_KEY
    /\ FDC_API_KEY' = FDC_API_KEY

\* a step leaves the suspended request as it is, or it is the event loop
\* that suspends the running request and resumes that one
SuspendedUntouched ==
    waiting # NoFrame /\ waiting' # waiting
        => waiting' = CurrentFrame /\ CurrentFrame' = waiting

\* C21: however the handlers of two requests (simple flow or detailed flow)
\* interleave at their awaits, no step modifies the static table, the list of
\* preferred types or the keys, a step of one request leaves the frame of the
\* suspended one untouched, and a request answered while the other one was
\* in progress, failing, retried or falling back, gets the answer it got when
\* it was served alone with the same provider responses.
C21_RequestsAreIsolated ==
    /\ [](SharedAsBuilt)
    /\ [][KeysUntouched /\ SuspendedUntouched]_vars
    /\ [](\A f \in InFlight : AnsweredAgain(f) => f.result = f.out)

\* a request has been answered again from FDC after a retry of its own while
\* the other request is suspended in the wait before its retry
C21_Witness ==
    /\ AnsweredAgain(CurrentFrame)
    /\ result.kind = "response"
    /\ sleeps # <<>>
    /\ waiting # NoFrame
    /\ waiting.fj_pc = "sleep"
    /\ waiting.attempt = 0
    /\ waiting.pc \in {"fdc_fetch", "probe"}

====
